---------------------------- MODULE Spec2Model ----------------------------
(***************************************************************************)
(* A model of calculator.py, the analysis core of the Philadelphia         *)
(* multifamily calculator: the payment-standard tables of both editions,   *)
(* parse_unit_bedroom_counts, calculate_loan_payment,                      *)
(* analyze_multifamily_property as a state machine whose steps follow the  *)
(* statements of the function in order, the neighborhood lookup and        *)
(* format_results_as_string.  Spec explores single calls; SpecCalls        *)
(* explores the calls of one process one after the other, those made with  *)
(* the bundle streamlit_app.py builds among them.                          *)
(*                                                                         *)
(* Strings are sequences of one-character strings, so that strip, upper,   *)
(* the two regular expressions and the f-string messages are computed the  *)
(* way the code computes them.  Python floats are modelled as exact        *)
(* rationals [n, d] in lowest terms with d > 0; float('inf') and           *)
(* -float('inf') are [n |-> 1, d |-> 0] and [n |-> -1, d |-> 0].  Rounding *)
(* of binary floating point is modelled where it decides the control flow, *)
(* in the sum 1 + monthly_rate of calculate_loan_payment, and nowhere      *)
(* else.                                                                   *)
(***************************************************************************)
EXTENDS Integers, Sequences, FiniteSets, TLC

VARIABLES
  input_params,        \* the parameter bundle of the call
  pc,                  \* position in analyze_multifamily_property
  parsed_units,        \* parse_unit_bedroom_counts' list of {count, bedrooms}
  parse_error,         \* its second result: None or the joined message
  safmr_group,         \* zip_mapping.get(prop_zip)
  group_idx,           \* index of the unit_group the outer loop is at
  inner_done,          \* iterations of `for _ in range(count)` done so far
  unit_number,         \* the running unit counter
  total_monthly_rent,  \* the running sum of resolved ceilings
  units,               \* result['units']
  property_summary,    \* result['property_summary']
  report,              \* the lines format_results_as_string wrote, if called
  calls                \* the finished calls of the process: bundle and outcome

vars == <<input_params, pc, parsed_units, parse_error, safmr_group, group_idx,
          inner_done, unit_number, total_monthly_rent, units, property_summary,
          report, calls>>

----------------------------------------------------------------------------
(* Exact rational arithmetic standing for Python float arithmetic.         *)

Abs(x) == IF x < 0 THEN -x ELSE x

\* The arithmetic is written as functions, whose arguments are values when
\* the body is evaluated, under operators of the usual names.
Rat == [n : Int, d : Nat]

\* Euclid's algorithm
gcd[a \in Nat, b \in Nat] == IF b = 0 THEN a ELSE gcd[b, a % b]

\* the rational n/d (d # 0) in lowest terms with a positive denominator
norm[n \in Int, d \in Int] ==
  LET g == gcd[Abs(n), Abs(d)]
      s == IF d < 0 THEN -1 ELSE 1
  IN  [n |-> s * (n \div g), d |-> s * (d \div g)]

R(i) == [n |-> i, d |-> 1]
Zero == R(0)
Inf == [n |-> 1, d |-> 0]
NegInf == [n |-> -1, d |-> 0]

add[a \in Rat, b \in Rat] ==
  LET g == gcd[a.d, b.d]
  IN  norm[a.n * (b.d \div g) + b.n * (a.d \div g), (a.d \div g) * b.d]
Add(a, b) == add[a, b]
Neg(a) == [n |-> -a.n, d |-> a.d]
Sub(a, b) == add[a, Neg(b)]
\* cross-cancelled before multiplying, so that intermediate products stay small
mul[a \in Rat, b \in Rat] ==
  LET x == norm[a.n, b.d]
      y == norm[b.n, a.d]
  IN  norm[x.n * y.n, x.d * y.d]
Mul(a, b) == mul[a, b]
\* a / b for b # 0 (the code divides only behind a guard)
Div(a, b) == mul[a, norm[b.d, b.n]]
Gt0(a) == a.n > 0
Le0(a) == a.n <= 0
Eq0(a) == a.n = 0 /\ a.d # 0

\* a ** k for an integer k >= 0
pow[a \in Rat, k \in Nat] == IF k = 0 THEN R(1) ELSE mul[a, pow[a, k - 1]]
Pow(a, k) == pow[a, k]

----------------------------------------------------------------------------
(* String helpers: str.strip, str.upper, int(), str(int), substring test.  *)

Whitespace == {" ", "\t", "\n"}
Digits == {"0", "1", "2", "3", "4", "5", "6", "7", "8", "9"}

DigitVal(c) ==
  CASE c = "0" -> 0 [] c = "1" -> 1 [] c = "2" -> 2 [] c = "3" -> 3
    [] c = "4" -> 4 [] c = "5" -> 5 [] c = "6" -> 6 [] c = "7" -> 7
    [] c = "8" -> 8 [] c = "9" -> 9

DigitChar(k) ==
  CASE k = 0 -> "0" [] k = 1 -> "1" [] k = 2 -> "2" [] k = 3 -> "3"
    [] k = 4 -> "4" [] k = 5 -> "5" [] k = 6 -> "6" [] k = 7 -> "7"
    [] k = 8 -> "8" [] k = 9 -> "9"

\* int(s) for a non-empty string of decimal digits
RECURSIVE ToInt(_)
ToInt(s) ==
  IF Len(s) = 0 THEN 0
  ELSE 10 * ToInt(SubSeq(s, 1, Len(s) - 1)) + DigitVal(s[Len(s)])

\* str(k) for an integer k >= 0, as an f-string renders it
RECURSIVE IntToStr(_)
IntToStr(k) ==
  IF k < 10 THEN <<DigitChar(k)>>
  ELSE IntToStr(k \div 10) \o <<DigitChar(k % 10)>>

Upper(c) ==
  CASE c = "a" -> "A" [] c = "b" -> "B" [] c = "c" -> "C" [] c = "d" -> "D"
    [] c = "e" -> "E" [] c = "f" -> "F" [] c = "g" -> "G" [] c = "h" -> "H"
    [] c = "i" -> "I" [] c = "j" -> "J" [] c = "k" -> "K" [] c = "l" -> "L"
    [] c = "m" -> "M" [] c = "n" -> "N" [] c = "o" -> "O" [] c = "p" -> "P"
    [] c = "q" -> "Q" [] c = "r" -> "R" [] c = "s" -> "S" [] c = "t" -> "T"
    [] c = "u" -> "U" [] c = "v" -> "V" [] c = "w" -> "W" [] c = "x" -> "X"
    [] c = "y" -> "Y" [] c = "z" -> "Z" [] OTHER -> c

UpperStr(s) == [i \in 1..Len(s) |-> Upper(s[i])]

RECURSIVE Strip(_)
Strip(s) ==
  IF Len(s) = 0 THEN s
  ELSE IF s[1] \in Whitespace THEN Strip(Tail(s))
  ELSE IF s[Len(s)] \in Whitespace THEN Strip(SubSeq(s, 1, Len(s) - 1))
  ELSE s

\* the number of consecutive characters of s from position i that are in S
RECURSIVE Span(_, _, _)
Span(s, i, S) ==
  IF i > Len(s) \/ s[i] \notin S THEN 0 ELSE 1 + Span(s, i + 1, S)

\* lit occurs in s starting at position i
LitAt(s, i, lit) ==
  /\ i + Len(lit) - 1 <= Len(s)
  /\ \A k \in 1..Len(lit) : s[i + k - 1] = lit[k]

\* Python's `lit in s`
Contains(s, lit) == \E i \in 1..(Len(s) + 1) : LitAt(s, i, lit)

\* An optional string: None, or a string.  Truthy is Python's truth value.
None == [none |-> TRUE, text |-> <<>>]
Some(s) == [none |-> FALSE, text |-> s]
Truthy(o) == ~o.none /\ Len(o.text) > 0

----------------------------------------------------------------------------
(* The payment-standard tables of the two editions.                        *)

ZIP_TO_GROUP_MAPPING ==
  (<<"1","9","1","2","0">> :> 1) @@ (<<"1","9","1","2","4">> :> 1) @@ (<<"1","9","1","2","6">> :> 1) @@
  (<<"1","9","1","3","2">> :> 1) @@ (<<"1","9","1","3","3">> :> 1) @@ (<<"1","9","1","3","4">> :> 1) @@
  (<<"1","9","1","3","6">> :> 1) @@ (<<"1","9","1","3","9">> :> 1) @@ (<<"1","9","1","4","0">> :> 1) @@
  (<<"1","9","1","4","1">> :> 1) @@ (<<"1","9","1","4","2">> :> 1) @@ (<<"1","9","1","4","3">> :> 1) @@
  (<<"1","9","1","5","1">> :> 1) @@ (<<"1","9","1","0","1">> :> 2) @@ (<<"1","9","1","0","4">> :> 2) @@
  (<<"1","9","1","0","5">> :> 2) @@ (<<"1","9","1","0","9">> :> 2) @@ (<<"1","9","1","1","0">> :> 2) @@
  (<<"1","9","1","1","1">> :> 2) @@ (<<"1","9","1","1","2">> :> 2) @@ (<<"1","9","1","1","4">> :> 2) @@
  (<<"1","9","1","1","5">> :> 2) @@ (<<"1","9","1","1","6">> :> 2) @@ (<<"1","9","1","1","9">> :> 2) @@
  (<<"1","9","1","2","1">> :> 2) @@ (<<"1","9","1","2","2">> :> 2) @@ (<<"1","9","1","3","1">> :> 2) @@
  (<<"1","9","1","3","5">> :> 2) @@ (<<"1","9","1","3","7">> :> 2) @@ (<<"1","9","1","3","8">> :> 2) @@
  (<<"1","9","1","4","4">> :> 2) @@ (<<"1","9","1","4","5">> :> 2) @@ (<<"1","9","1","4","8">> :> 2) @@
  (<<"1","9","1","4","9">> :> 2) @@ (<<"1","9","1","5","0">> :> 2) @@ (<<"1","9","1","5","2">> :> 2) @@
  (<<"1","9","1","5","3">> :> 2) @@ (<<"1","9","1","5","4">> :> 2) @@ (<<"1","9","1","1","8">> :> 3) @@
  (<<"1","9","1","2","5">> :> 3) @@ (<<"1","9","1","2","7">> :> 3) @@ (<<"1","9","1","2","8">> :> 3) @@
  (<<"1","9","1","2","9">> :> 3) @@ (<<"1","9","1","4","6">> :> 3) @@ (<<"1","9","1","0","2">> :> 4) @@
  (<<"1","9","1","0","3">> :> 4) @@ (<<"1","9","1","0","6">> :> 4) @@ (<<"1","9","1","0","7">> :> 4) @@
  (<<"1","9","1","2","3">> :> 4) @@ (<<"1","9","1","3","0">> :> 4) @@ (<<"1","9","1","4","7">> :> 4)

PAYMENT_STANDARDS ==
  (1 :> (
      (<<"S","R","O">> :> 847) @@ (<<"0"," ","B","R">> :> 1130) @@ (<<"1"," ","B","R">> :> 1240) @@
      (<<"2"," ","B","R">> :> 1480) @@ (<<"3"," ","B","R">> :> 1780) @@ (<<"4"," ","B","R">> :> 2030) @@
      (<<"5"," ","B","R">> :> 2334) @@ (<<"6"," ","B","R">> :> 2639) @@ (<<"7"," ","B","R">> :> 2943) @@
      (<<"8"," ","B","R">> :> 3248)
  )) @@
  (2 :> (
      (<<"S","R","O">> :> 1042) @@ (<<"0"," ","B","R">> :> 1390) @@ (<<"1"," ","B","R">> :> 1540) @@
      (<<"2"," ","B","R">> :> 1830) @@ (<<"3"," ","B","R">> :> 2200) @@ (<<"4"," ","B","R">> :> 2510) @@
      (<<"5"," ","B","R">> :> 2886) @@ (<<"6"," ","B","R">> :> 3263) @@ (<<"7"," ","B","R">> :> 3639) @@
      (<<"8"," ","B","R">> :> 4016)
  )) @@
  (3 :> (
      (<<"S","R","O">> :> 1342) @@ (<<"0"," ","B","R">> :> 1790) @@ (<<"1"," ","B","R">> :> 1970) @@
      (<<"2"," ","B","R">> :> 2350) @@ (<<"3"," ","B","R">> :> 2830) @@ (<<"4"," ","B","R">> :> 3220) @@
      (<<"5"," ","B","R">> :> 3703) @@ (<<"6"," ","B","R">> :> 4186) @@ (<<"7"," ","B","R">> :> 4669) @@
      (<<"8"," ","B","R">> :> 5152)
  )) @@
  (4 :> (
      (<<"S","R","O">> :> 1522) @@ (<<"0"," ","B","R">> :> 2030) @@ (<<"1"," ","B","R">> :> 2270) @@
      (<<"2"," ","B","R">> :> 2700) @@ (<<"3"," ","B","R">> :> 3250) @@ (<<"4"," ","B","R">> :> 3700) @@
      (<<"5"," ","B","R">> :> 4255) @@ (<<"6"," ","B","R">> :> 4810) @@ (<<"7"," ","B","R">> :> 5365) @@
      (<<"8"," ","B","R">> :> 5920)
  ))

GROUP_TO_RENT_TYPE ==
  (1 :> <<"T","r","a","d","i","t","i","o","n","a","l"," ","R","e","n","t","s">>) @@
  (2 :> <<"M","i","d"," ","R","a","n","g","e"," ","R","e","n","t","s">>) @@
  (3 :> <<"O","p","p","o","r","t","u","n","i","t","y"," ","R","e","n","t","s">>) @@
  (4 :> <<"H","i","g","h"," ","O","p","p","o","r","t","u","n","i","t","y"," ","R","e","n","t","s">>)

ZIP_TO_GROUP_MAPPING_2025 ==
  (<<"1","9","1","2","4">> :> 1) @@ (<<"1","9","1","3","2">> :> 1) @@ (<<"1","9","1","3","3">> :> 1) @@
  (<<"1","9","1","4","1">> :> 1) @@ (<<"1","9","1","1","1">> :> 2) @@ (<<"1","9","1","1","5">> :> 2) @@
  (<<"1","9","1","1","6">> :> 2) @@ (<<"1","9","1","1","9">> :> 2) @@ (<<"1","9","1","2","0">> :> 2) @@
  (<<"1","9","1","2","1">> :> 2) @@ (<<"1","9","1","2","2">> :> 2) @@ (<<"1","9","1","2","6">> :> 2) @@
  (<<"1","9","1","3","4">> :> 2) @@ (<<"1","9","1","3","5">> :> 2) @@ (<<"1","9","1","3","6">> :> 2) @@
  (<<"1","9","1","3","7">> :> 2) @@ (<<"1","9","1","3","8">> :> 2) @@ (<<"1","9","1","3","9">> :> 2) @@
  (<<"1","9","1","4","0">> :> 2) @@ (<<"1","9","1","4","2">> :> 2) @@ (<<"1","9","1","4","3">> :> 2) @@
  (<<"1","9","1","4","4">> :> 2) @@ (<<"1","9","1","5","0">> :> 2) @@ (<<"1","9","1","5","1">> :> 2) @@
  (<<"1","9","1","5","2">> :> 2) @@ (<<"1","9","1","0","1">> :> 3) @@ (<<"1","9","1","0","4">> :> 3) @@
  (<<"1","9","1","0","5">> :> 3) @@ (<<"1","9","1","0","9">> :> 3) @@ (<<"1","9","1","1","0">> :> 3) @@
  (<<"1","9","1","1","2">> :> 3) @@ (<<"1","9","1","1","4">> :> 3) @@ (<<"1","9","1","2","9">> :> 3) @@
  (<<"1","9","1","3","1">> :> 3) @@ (<<"1","9","1","4","5">> :> 3) @@ (<<"1","9","1","4","8">> :> 3) @@
  (<<"1","9","1","4","9">> :> 3) @@ (<<"1","9","1","5","3">> :> 3) @@ (<<"1","9","1","5","4">> :> 3) @@
  (<<"1","9","1","1","8">> :> 4) @@ (<<"1","9","1","2","3">> :> 4) @@ (<<"1","9","1","2","5">> :> 4) @@
  (<<"1","9","1","2","7">> :> 4) @@ (<<"1","9","1","2","8">> :> 4) @@ (<<"1","9","1","4","6">> :> 4) @@
  (<<"1","9","1","0","2">> :> 5) @@ (<<"1","9","1","0","3">> :> 5) @@ (<<"1","9","1","0","6">> :> 5) @@
  (<<"1","9","1","0","7">> :> 5) @@ (<<"1","9","1","3","0">> :> 5) @@ (<<"1","9","1","4","7">> :> 5)

\* PAYMENT_STANDARDS_2025 without a row for the edition's fifth group: the
\* four rows of the earlier edition
PAYMENT_STANDARDS_2025_FourGroups == PAYMENT_STANDARDS

PAYMENT_STANDARDS_2025 ==
  (1 :> (
      (<<"S","R","O">> :> 825) @@ (<<"0"," ","B","R">> :> 1100) @@ (<<"1"," ","B","R">> :> 1190) @@
      (<<"2"," ","B","R">> :> 1420) @@ (<<"3"," ","B","R">> :> 1700) @@ (<<"4"," ","B","R">> :> 1900) @@
      (<<"5"," ","B","R">> :> 2185) @@ (<<"6"," ","B","R">> :> 2470) @@ (<<"7"," ","B","R">> :> 2755) @@
      (<<"8"," ","B","R">> :> 3040)
  )) @@
  (2 :> (
      (<<"S","R","O">> :> 960) @@ (<<"0"," ","B","R">> :> 1280) @@ (<<"1"," ","B","R">> :> 1390) @@
      (<<"2"," ","B","R">> :> 1660) @@ (<<"3"," ","B","R">> :> 1990) @@ (<<"4"," ","B","R">> :> 2220) @@
      (<<"5"," ","B","R">> :> 2553) @@ (<<"6"," ","B","R">> :> 2886) @@ (<<"7"," ","B","R">> :> 3219) @@
      (<<"8"," ","B","R">> :> 3552)
  )) @@
  (3 :> (
      (<<"S","R","O">> :> 1162) @@ (<<"0"," ","B","R">> :> 1550) @@ (<<"1"," ","B","R">> :> 1690) @@
      (<<"2"," ","B","R">> :> 2010) @@ (<<"3"," ","B","R">> :> 2410) @@ (<<"4"," ","B","R">> :> 2690) @@
      (<<"5"," ","B","R">> :> 3093) @@ (<<"6"," ","B","R">> :> 3497) @@ (<<"7"," ","B","R">> :> 3900) @@
      (<<"8"," ","B","R">> :> 4304)
  )) @@
  (4 :> (
      (<<"S","R","O">> :> 1350) @@ (<<"0"," ","B","R">> :> 1800) @@ (<<"1"," ","B","R">> :> 1960) @@
      (<<"2"," ","B","R">> :> 2330) @@ (<<"3"," ","B","R">> :> 2790) @@ (<<"4"," ","B","R">> :> 3120) @@
      (<<"5"," ","B","R">> :> 3588) @@ (<<"6"," ","B","R">> :> 4056) @@ (<<"7"," ","B","R">> :> 4524) @@
      (<<"8"," ","B","R">> :> 4992)
  )) @@
  (5 :> (
      (<<"S","R","O">> :> 1575) @@ (<<"0"," ","B","R">> :> 2100) @@ (<<"1"," ","B","R">> :> 2280) @@
      (<<"2"," ","B","R">> :> 2720) @@ (<<"3"," ","B","R">> :> 3260) @@ (<<"4"," ","B","R">> :> 3640) @@
      (<<"5"," ","B","R">> :> 4186) @@ (<<"6"," ","B","R">> :> 4732) @@ (<<"7"," ","B","R">> :> 5278) @@
      (<<"8"," ","B","R">> :> 5824)
  ))

GROUP_TO_RENT_TYPE_2025 ==
  (1 :> <<"B","a","s","i","c"," ","R","e","n","t","s">>) @@
  (2 :> <<"T","r","a","d","i","t","i","o","n","a","l"," ","R","e","n","t","s">>) @@
  (3 :> <<"M","i","d"," ","R","a","n","g","e"," ","R","e","n","t","s">>) @@
  (4 :> <<"O","p","p","o","r","t","u","n","i","t","y"," ","R","e","n","t","s">>) @@
  (5 :> <<"H","i","g","h"," ","O","p","p","o","r","t","u","n","i","t","y"," ","R","e","n","t","s">>)

MsgInvalidOrEmpty == <<"I","n","v","a","l","i","d"," ","o","r"," ","e","m","p","t","y"," ","u","n","i","t"," ","s","t","r","i","n","g",".">>
MsgCouldNotParse == <<"C","o","u","l","d"," ","n","o","t"," ","p","a","r","s","e"," ","'">>
MsgQuote == <<"'">>
MsgJoin == <<";"," ">>
MsgNoValidUnits == <<"N","o"," ","v","a","l","i","d"," ","u","n","i","t","s"," ","f","o","u","n","d"," ","t","o"," ","a","n","a","l","y","z","e",".">>
MsgZipCode == <<"Z","I","P"," ","c","o","d","e"," ">>
MsgNotFoundIn == <<" ","n","o","t"," ","f","o","u","n","d"," ","i","n"," ">>
MsgPaymentStandards == <<" ","p","a","y","m","e","n","t"," ","s","t","a","n","d","a","r","d","s",".">>
MsgNoStandard == <<"N","o"," ","P","H","A"," ","r","e","n","t"," ","s","t","a","n","d","a","r","d"," ","f","o","u","n","d"," ","f","o","r"," ">>
MsgInGroup == <<" ","i","n"," ","G","r","o","u","p"," ">>
MsgBR == <<" ","B","R">>
MsgUnknown == <<"U","n","k","n","o","w","n">>
Year2024 == <<"2","0","2","4">>
Year2025 == <<"2","0","2","5">>

----------------------------------------------------------------------------
(* Year selection.  A bundle without 'payment_year' reads as "2024".       *)

get_payment_standards_for_year(year) ==
  IF year = Year2025 THEN PAYMENT_STANDARDS_2025 ELSE PAYMENT_STANDARDS

get_zip_mapping_for_year(year) ==
  IF year = Year2025 THEN ZIP_TO_GROUP_MAPPING_2025 ELSE ZIP_TO_GROUP_MAPPING

\* get_group_to_rent_type_for_year ignoring the selector: the labels of the
\* 2024 edition whatever the year
get_group_to_rent_type_for_year_Always2024(year) == GROUP_TO_RENT_TYPE

get_group_to_rent_type_for_year(year) ==
  IF year = Year2025 THEN GROUP_TO_RENT_TYPE_2025 ELSE GROUP_TO_RENT_TYPE

\* dict.get(key, default)
DictGet(dict, key, default) == IF key \in DOMAIN dict THEN dict[key] ELSE default

----------------------------------------------------------------------------
(* parse_unit_bedroom_counts                                               *)

SepChars == {",", ";"}
XChars == {"x", "X", "×"}

\* Length of the match of  [,;\s]+AND\s+|[,;]  at position i of s, 0 for no
\* match.  The first alternative is tried first; its greedy runs cannot give
\* characters back, because "A" is not in [,;\s] and \s+ ends the pattern.
SepMatchLen(s, i) ==
  LET k == Span(s, i, SepChars \cup Whitespace)
      w == Span(s, i + k + 3, Whitespace)
  IN  IF k >= 1 /\ LitAt(s, i + k, <<"A", "N", "D">>) /\ w >= 1 THEN k + 3 + w
      ELSE IF s[i] \in SepChars THEN 1
      ELSE 0

\* re.split: the pieces of s between the matches, scanning from position i
\* with the current piece starting at position from
RECURSIVE SplitFrom(_, _, _)
SplitFrom(s, i, from) ==
  IF i > Len(s) THEN <<SubSeq(s, from, Len(s))>>
  ELSE LET m == SepMatchLen(s, i)
       IN  IF m > 0
           THEN <<SubSeq(s, from, i - 1)>> \o SplitFrom(s, i + m, i + m)
           ELSE SplitFrom(s, i + 1, from)

ReSplit(s) == SplitFrom(s, 1, 1)

\* re.match(r'(\d+)\s*[xX×]\s*(\d+)\s*BR', p): a match at the start of p;
\* whatever follows the match is not looked at.
\* MatchToken as a match of the whole token: nothing may follow BR
MatchToken_FullMatch(p) ==
  LET d1 == Span(p, 1, Digits)
      w1 == Span(p, 1 + d1, Whitespace)
      xi == 1 + d1 + w1
      w2 == Span(p, xi + 1, Whitespace)
      s2 == xi + 1 + w2
      d2 == Span(p, s2, Digits)
      w3 == Span(p, s2 + d2, Whitespace)
      ok == /\ d1 >= 1
            /\ xi <= Len(p) /\ p[xi] \in XChars
            /\ d2 >= 1
            /\ LitAt(p, s2 + d2 + w3, <<"B", "R">>)
            /\ s2 + d2 + w3 + 1 = Len(p)
  IN  IF ok
      THEN [ok |-> TRUE,
            count |-> ToInt(SubSeq(p, 1, d1)),
            bedrooms |-> ToInt(SubSeq(p, s2, s2 + d2 - 1))]
      ELSE [ok |-> FALSE, count |-> 0, bedrooms |-> 0]

MatchToken(p) ==
  LET d1 == Span(p, 1, Digits)
      w1 == Span(p, 1 + d1, Whitespace)
      xi == 1 + d1 + w1
      w2 == Span(p, xi + 1, Whitespace)
      s2 == xi + 1 + w2
      d2 == Span(p, s2, Digits)
      w3 == Span(p, s2 + d2, Whitespace)
      ok == /\ d1 >= 1
            /\ xi <= Len(p) /\ p[xi] \in XChars
            /\ d2 >= 1
            /\ LitAt(p, s2 + d2 + w3, <<"B", "R">>)
  IN  IF ok
      THEN [ok |-> TRUE,
            count |-> ToInt(SubSeq(p, 1, d1)),
            bedrooms |-> ToInt(SubSeq(p, s2, s2 + d2 - 1))]
      ELSE [ok |-> FALSE, count |-> 0, bedrooms |-> 0]

\* the body of `for pattern in unit_patterns` on one pattern, acc being
\* the pair (parsed_units, errors) so far
ParseStep(acc, raw) ==
  LET pattern == Strip(raw)
      m == MatchToken(pattern)
  IN  IF Len(pattern) = 0 THEN acc
      ELSE IF m.ok
      THEN [acc EXCEPT !.parsed_units =
              Append(@, [count |-> m.count, bedrooms |-> m.bedrooms])]
      ELSE [acc EXCEPT !.errors =
              Append(@, MsgCouldNotParse \o pattern \o MsgQuote)]

RECURSIVE ParseLoop(_, _)
ParseLoop(patterns, acc) ==
  IF Len(patterns) = 0 THEN acc
  ELSE ParseLoop(Tail(patterns), ParseStep(acc, Head(patterns)))

\* "; ".join(errors)
RECURSIVE Join(_)
Join(errors) ==
  IF Len(errors) = 0 THEN <<>>
  ELSE IF Len(errors) = 1 THEN errors[1]
  ELSE errors[1] \o MsgJoin \o Join(Tail(errors))

parse_unit_bedroom_counts(unit_str) ==
  IF Len(unit_str) = 0
  THEN [parsed_units |-> <<>>, error |-> Some(MsgInvalidOrEmpty)]
  ELSE LET unit_str_clean == UpperStr(Strip(unit_str))
           unit_patterns == ReSplit(unit_str_clean)
           r == ParseLoop(unit_patterns, [parsed_units |-> <<>>, errors |-> <<>>])
       IN  IF Len(r.errors) > 0
           THEN [parsed_units |-> r.parsed_units, error |-> Some(Join(r.errors))]
           ELSE [parsed_units |-> r.parsed_units, error |-> None]

----------------------------------------------------------------------------
(* calculate_loan_payment                                                  *)

\* The annual rate is the one float of the function whose rounding decides
\* which way it goes: a float q * 2^-e, given by the rational q and the binary
\* scale e, stands for rates below the reach of a model rational.  A rate with
\* e = 0 is the rational q itself.
Scaled(q, e) == [q |-> q, e |-> e]

\* the significand of a Python float (IEEE 754 binary64) has 53 bits
MantissaBits == 53

\* the rational a scaled float stands for, where it is within reach
Exact(x) == IF x.e = 0 THEN x.q ELSE Div(x.q, R(2 ^ x.e))

\* `1 + monthly_rate` in binary64: a positive operand of at most 2^-53 is
\* rounded away (ties go to the even neighbour, 1.0) and the sum is exactly
\* 1.0.  The scales in use are 0 and those of at least 53 bits; a rational
\* with e = 0 has a denominator below 2^31 and is never rounded away.
OnePlus(x) ==
  IF /\ x.e >= MantissaBits
     /\ Gt0(x.q)
     /\ x.q.n <= x.q.d * 2 ^ (x.e - MantissaBits)
  THEN R(1)
  ELSE Add(R(1), Exact(x))

\* the two ways the function ends: a returned float, or the exception Python
\* raises for a float division by 0.0
Returns(value) == [raised |-> FALSE, value |-> value]
ZeroDivisionError == [raised |-> TRUE, value |-> Zero]

calculate_loan_payment(principal, annual_rate, term_years) ==
  IF Le0(principal) \/ term_years <= 0 THEN Returns(Zero)
  ELSE IF Eq0(annual_rate.q) THEN Returns(Div(principal, R(term_years * 12)))
  ELSE LET monthly_rate ==
             Scaled(Div(Div(annual_rate.q, R(100)), R(12)), annual_rate.e)
           num_payments == term_years * 12
           growth == Pow(OnePlus(monthly_rate), num_payments)
           denominator == Sub(growth, R(1))
       IN  IF Eq0(denominator) THEN ZeroDivisionError
           ELSE Returns(Div(Mul(principal, Mul(Exact(monthly_rate), growth)),
                            denominator))

----------------------------------------------------------------------------
(* analyze_multifamily_property                                            *)

\* an optional integer: None, or the value a dict lookup found
NoneInt == [none |-> TRUE, val |-> 0]
SomeInt(g) == [none |-> FALSE, val |-> g]

\* input_params.get('payment_year', '2024')
PaymentYearOf(params) == DictGet(params, "payment_year", Year2024)

\* lines 454-459
CashOnCashReturn(cash_flow_before_tax_annual, total_cash_invested) ==
  IF Gt0(total_cash_invested)
  THEN Mul(Div(cash_flow_before_tax_annual, total_cash_invested), R(100))
  ELSE IF Gt0(cash_flow_before_tax_annual) THEN Inf
  ELSE NegInf

\* CapRate as a fraction, not multiplied by 100 into a percent
CapRate_AsFraction(noi_annual, prop_price) ==
  IF Gt0(prop_price) THEN Div(noi_annual, prop_price)
  ELSE Inf

\* lines 461-464
CapRate(noi_annual, prop_price) ==
  IF Gt0(prop_price) THEN Mul(Div(noi_annual, prop_price), R(100))
  ELSE Inf

\* lines 466-469
GrossRentMultiplier(prop_price, gross_potential_rent_annual) ==
  IF Gt0(gross_potential_rent_annual)
  THEN Div(prop_price, gross_potential_rent_annual)
  ELSE Zero

\* UnitInfo with the `else` branch of line 413 leaving out the failure reason:
\* a unit without a ceiling is recorded untagged
UnitInfo_FailedUntagged(number, bedrooms, bedrooms_str, group, rent_type, pha_rent) ==
  LET unit_info == [unit_number |-> number,
                    bedrooms |-> bedrooms,
                    bedrooms_str |-> bedrooms_str,
                    safmr_group |-> group,
                    rent_type |-> rent_type]
  IN  IF ~pha_rent.none
      THEN ("pha_rent" :> R(pha_rent.val)) @@ unit_info
      ELSE ("pha_rent" :> Zero) @@ unit_info

\* lines 402-415: the record of one unit of a group whose ceiling lookup
\* returned pha_rent (an optional integer)
UnitInfo(number, bedrooms, bedrooms_str, group, rent_type, pha_rent) ==
  LET unit_info == [unit_number |-> number,
                    bedrooms |-> bedrooms,
                    bedrooms_str |-> bedrooms_str,
                    safmr_group |-> group,
                    rent_type |-> rent_type]
  IN  IF ~pha_rent.none
      THEN ("pha_rent" :> R(pha_rent.val)) @@ unit_info
      ELSE ("error" :> (MsgNoStandard \o bedrooms_str \o MsgInGroup \o IntToStr(group)))
           @@ ("pha_rent" :> Zero) @@ unit_info

\* TotalOperatingExpenses leaving out the other fixed expense
TotalOperatingExpenses_WithoutOther(tax, insurance, repairs, management, other_opex) ==
  Add(Add(Add(tax, insurance), repairs), management)

\* lines 437-443
TotalOperatingExpenses(tax, insurance, repairs, management, other_opex) ==
  Add(Add(Add(Add(tax, insurance), repairs), management), other_opex)

\* AnnualDebtService without the 12 months
AnnualDebtService_OneMonth(monthly_pi) == monthly_pi

\* line 446
AnnualDebtService(monthly_pi) == Mul(monthly_pi, R(12))

\* line 420
DownPaymentAmount(params) ==
  Mul(R(params.property_price), Div(R(params.down_payment_percent), R(100)))

\* LoanAmount financing the whole price, the down payment not taken off
LoanAmount_FullPrice(params) == R(params.property_price)

\* line 421
LoanAmount(params) == Sub(R(params.property_price), DownPaymentAmount(params))

\* line 424: the call of calculate_loan_payment, which returns or raises
MonthlyPI(params) ==
  calculate_loan_payment(LoanAmount(params), params.interest_rate,
                         params.loan_term_years)

\* lines 419-506: the summary built from the inputs and the loop's results
FinancialSummary(params, group, rent_type, n_units, monthly_rent) ==
  LET prop_price == R(params.property_price)
      annual_property_tax == R(params.annual_property_taxes)
      annual_insurance == R(params.annual_home_insurance)
      vacancy_rate == R(params.vacancy_rate_percent)
      maintenance_rate == R(params.repairs_maintenance_percent)
      management_rate == R(params.property_management_percent)
      other_opex == R(params.other_opex_annual)
      down_payment_amount == DownPaymentAmount(params)
      loan_amount == LoanAmount(params)
      monthly_pi == MonthlyPI(params).value
      monthly_taxes == Div(annual_property_tax, R(12))
      monthly_insurance == Div(annual_insurance, R(12))
      monthly_piti == Add(Add(monthly_pi, monthly_taxes), monthly_insurance)
      gross_potential_rent_annual == Mul(monthly_rent, R(12))
      vacancy_allowance_annual == Mul(gross_potential_rent_annual, Div(vacancy_rate, R(100)))
      effective_gross_income_annual == Sub(gross_potential_rent_annual, vacancy_allowance_annual)
      repairs_allowance_annual == Mul(gross_potential_rent_annual, Div(maintenance_rate, R(100)))
      management_fee_annual == Mul(gross_potential_rent_annual, Div(management_rate, R(100)))
      total_operating_expenses_annual ==
        TotalOperatingExpenses(annual_property_tax, annual_insurance,
                               repairs_allowance_annual, management_fee_annual,
                               other_opex)
      noi_annual == Sub(effective_gross_income_annual, total_operating_expenses_annual)
      annual_debt_service == AnnualDebtService(monthly_pi)
      cash_flow_before_tax_annual == Sub(noi_annual, annual_debt_service)
      cash_flow_before_tax_monthly == Div(cash_flow_before_tax_annual, R(12))
      total_cash_invested == down_payment_amount
  IN  [total_units |-> n_units,
       safmr_group |-> group,
       rent_type |-> rent_type,
       payment_year |-> PaymentYearOf(params),
       total_potential_pha_rent_monthly |-> monthly_rent,
       down_payment_amount |-> down_payment_amount,
       loan_amount |-> loan_amount,
       monthly_principal_interest |-> monthly_pi,
       monthly_taxes |-> monthly_taxes,
       monthly_insurance |-> monthly_insurance,
       monthly_piti |-> monthly_piti,
       monthly_maintenance |-> Div(repairs_allowance_annual, R(12)),
       monthly_management_fee |-> Div(management_fee_annual, R(12)),
       monthly_debt_service |-> monthly_pi,
       gross_potential_rent_annual |-> gross_potential_rent_annual,
       vacancy_allowance_annual |-> vacancy_allowance_annual,
       effective_gross_income_annual |-> effective_gross_income_annual,
       repairs_allowance_annual |-> repairs_allowance_annual,
       management_fee_annual |-> management_fee_annual,
       total_operating_expenses_annual |-> total_operating_expenses_annual,
       noi_annual |-> noi_annual,
       annual_debt_service |-> annual_debt_service,
       cash_flow_before_tax_annual |-> cash_flow_before_tax_annual,
       cash_flow_before_tax_monthly |-> cash_flow_before_tax_monthly,
       cash_on_cash_return_percent |->
         CashOnCashReturn(cash_flow_before_tax_annual, total_cash_invested),
       cap_rate_percent |-> CapRate(noi_annual, prop_price),
       grm |-> GrossRentMultiplier(prop_price, gross_potential_rent_annual),
       gross_revenue_5_years |-> Mul(gross_potential_rent_annual, R(5)),
       noi_5_years |-> Mul(noi_annual, R(5))]

\* the empty dict
EmptyDict == [k \in {} |-> None]

\* lines 348-360: the keys read from the bundle by subscript
RequiredKeys ==
  {"property_zip_code", "unit_bedroom_counts_str", "property_price",
   "down_payment_percent", "interest_rate", "loan_term_years",
   "annual_property_taxes", "annual_home_insurance", "vacancy_rate_percent",
   "repairs_maintenance_percent", "property_management_percent", "other_opex_annual"}

\* lines 348-360: a subscript on a key the bundle lacks raises KeyError; the
\* exception leaves analyze_multifamily_property, which returns nothing
RaiseKeyError ==
  /\ pc = "start"
  /\ ~(RequiredKeys \subseteq DOMAIN input_params)
  /\ pc' = "KeyError"
  /\ UNCHANGED <<input_params, parsed_units, parse_error, safmr_group, group_idx,
                 inner_done, unit_number, total_monthly_rent, units,
                 property_summary, report, calls>>

\* ParseUnitMix appending to the unit list of the previous result instead of
\* creating the list of the new one
ParseUnitMix_SharedUnitList ==
  /\ pc = "start"
  /\ RequiredKeys \subseteq DOMAIN input_params
  /\ LET r == parse_unit_bedroom_counts(input_params.unit_bedroom_counts_str)
     IN  /\ parsed_units' = r.parsed_units
         /\ parse_error' = r.error
         /\ property_summary' =
              IF Truthy(r.error) THEN ("unit_errors" :> r.error.text) ELSE EmptyDict
  /\ pc' = "parsed"
  /\ UNCHANGED <<input_params, safmr_group, group_idx, inner_done, unit_number,
                 total_monthly_rent, units>>
  /\ UNCHANGED <<report, calls>>

\* lines 340-372: read the bundle, create the result, parse the unit mix,
\* record a parse error
ParseUnitMix ==
  /\ pc = "start"
  /\ RequiredKeys \subseteq DOMAIN input_params
  /\ LET r == parse_unit_bedroom_counts(input_params.unit_bedroom_counts_str)
     IN  /\ parsed_units' = r.parsed_units
         /\ parse_error' = r.error
         /\ property_summary' =
              IF Truthy(r.error) THEN ("unit_errors" :> r.error.text) ELSE EmptyDict
  /\ units' = <<>>
  /\ pc' = "parsed"
  /\ UNCHANGED <<input_params, safmr_group, group_idx, inner_done, unit_number,
                 total_monthly_rent>>
  /\ UNCHANGED <<report, calls>>

\* lines 374-376: `if not parsed_units`, the first fatal return
ReturnNoUnits ==
  /\ pc = "parsed"
  /\ Len(parsed_units) = 0
  /\ property_summary' = ("error" :> MsgNoValidUnits) @@ property_summary
  /\ pc' = "done"
  /\ UNCHANGED <<input_params, parsed_units, parse_error, safmr_group, group_idx,
                 inner_done, unit_number, total_monthly_rent, units>>
  /\ UNCHANGED <<report, calls>>

\* zip_mapping.get(prop_zip), line 379
LookupGroup(params) ==
  LET zip_mapping == get_zip_mapping_for_year(PaymentYearOf(params))
      prop_zip == params.property_zip_code
  IN  IF prop_zip \in DOMAIN zip_mapping THEN SomeInt(zip_mapping[prop_zip])
      ELSE NoneInt

\* ReturnZipNotFound that, besides the error, fills the summary with the
\* financials of an empty property instead of leaving them out
ReturnZipNotFound_ZeroedFinancials ==
  /\ pc = "parsed"
  /\ Len(parsed_units) > 0
  /\ LookupGroup(input_params).none
  /\ safmr_group' = NoneInt
  /\ property_summary' =
       ("error" :> (MsgZipCode \o input_params.property_zip_code \o MsgNotFoundIn
                     \o PaymentYearOf(input_params) \o MsgPaymentStandards))
       @@ FinancialSummary(input_params, 0, MsgUnknown, 0, Zero)
  /\ pc' = "done"
  /\ UNCHANGED <<input_params, parsed_units, parse_error, group_idx, inner_done,
                 unit_number, total_monthly_rent, units>>
  /\ UNCHANGED <<report, calls>>

\* lines 378-383: the postal code is not in the edition's map, the second
\* fatal return
ReturnZipNotFound ==
  /\ pc = "parsed"
  /\ Len(parsed_units) > 0
  /\ LookupGroup(input_params).none
  /\ safmr_group' = NoneInt
  /\ property_summary' =
       ("error" :> (MsgZipCode \o input_params.property_zip_code \o MsgNotFoundIn
                     \o PaymentYearOf(input_params) \o MsgPaymentStandards))
       @@ property_summary
  /\ pc' = "done"
  /\ UNCHANGED <<input_params, parsed_units, parse_error, group_idx, inner_done,
                 unit_number, total_monthly_rent, units>>
  /\ UNCHANGED <<report, calls>>

\* EnterUnitLoop without the postal-code check before it: the unit loop is
\* entered whether or not the map has the postal code
EnterUnitLoop_WithoutZipCheck ==
  /\ pc = "parsed"
  /\ Len(parsed_units) > 0
  /\ safmr_group' = LookupGroup(input_params)
  /\ unit_number' = 0
  /\ total_monthly_rent' = Zero
  /\ group_idx' = 1
  /\ inner_done' = 0
  /\ pc' = "units"
  /\ UNCHANGED <<input_params, parsed_units, parse_error, units, property_summary>>
  /\ UNCHANGED <<report, calls>>

\* lines 378-390: the postal code resolves; the unit loop is set up
EnterUnitLoop ==
  /\ pc = "parsed"
  /\ Len(parsed_units) > 0
  /\ ~LookupGroup(input_params).none
  /\ safmr_group' = LookupGroup(input_params)
  /\ unit_number' = 0
  /\ total_monthly_rent' = Zero
  /\ group_idx' = 1
  /\ inner_done' = 0
  /\ pc' = "units"
  /\ UNCHANGED <<input_params, parsed_units, parse_error, units, property_summary>>
  /\ UNCHANGED <<report, calls>>

\* line 385
RentTypeOf(params, group) ==
  DictGet(get_group_to_rent_type_for_year(PaymentYearOf(params)), group, MsgUnknown)

\* line 386
GroupPaymentStandards(params, group) ==
  DictGet(get_payment_standards_for_year(PaymentYearOf(params)), group, EmptyDict)

\* line 395
BedroomsStr(bedrooms) == IntToStr(bedrooms) \o MsgBR

\* PhaRent with the lookup of line 398 defaulting to 0 instead of None
PhaRent_DefaultZero(params, group, bedrooms) ==
  LET row == GroupPaymentStandards(params, group)
      key == BedroomsStr(bedrooms)
  IN  IF key \in DOMAIN row THEN SomeInt(row[key]) ELSE SomeInt(0)

\* line 398: group_payment_standards.get(bedrooms_str, None)
PhaRent(params, group, bedrooms) ==
  LET row == GroupPaymentStandards(params, group)
      key == BedroomsStr(bedrooms)
  IN  IF key \in DOMAIN row THEN SomeInt(row[key]) ELSE NoneInt

\* AccumulateRent keeping the ceiling of the latest unit instead of adding it
AccumulateRent_LatestOnly(total, pha_rent) ==
  IF ~pha_rent.none THEN R(pha_rent.val) ELSE total

\* lines 410-412: the running sum takes the ceiling of a resolved unit only
AccumulateRent(total, pha_rent) ==
  IF ~pha_rent.none THEN Add(total, R(pha_rent.val)) ELSE total

\* ProcessUnit numbering the unit by its place in its group instead of by the
\* running counter
ProcessUnit_NumberedWithinGroup ==
  /\ pc = "units"
  /\ group_idx <= Len(parsed_units)
  /\ inner_done < parsed_units[group_idx].count
  /\ LET unit_group == parsed_units[group_idx]
         pha_rent == PhaRent(input_params, safmr_group.val, unit_group.bedrooms)
     IN  /\ unit_number' = unit_number + 1
         /\ units' = Append(units,
                       UnitInfo(inner_done + 1, unit_group.bedrooms,
                                BedroomsStr(unit_group.bedrooms), safmr_group.val,
                                RentTypeOf(input_params, safmr_group.val), pha_rent))
         /\ total_monthly_rent' = AccumulateRent(total_monthly_rent, pha_rent)
  /\ inner_done' = inner_done + 1
  /\ UNCHANGED <<input_params, pc, parsed_units, parse_error, safmr_group, group_idx,
                 property_summary>>
  /\ UNCHANGED <<report, calls>>

\* lines 400-417: one iteration of `for _ in range(count)`
ProcessUnit ==
  /\ pc = "units"
  /\ group_idx <= Len(parsed_units)
  /\ inner_done < parsed_units[group_idx].count
  /\ LET unit_group == parsed_units[group_idx]
         pha_rent == PhaRent(input_params, safmr_group.val, unit_group.bedrooms)
     IN  /\ unit_number' = unit_number + 1
         /\ units' = Append(units,
                       UnitInfo(unit_number + 1, unit_group.bedrooms,
                                BedroomsStr(unit_group.bedrooms), safmr_group.val,
                                RentTypeOf(input_params, safmr_group.val), pha_rent))
         /\ total_monthly_rent' = AccumulateRent(total_monthly_rent, pha_rent)
  /\ inner_done' = inner_done + 1
  /\ UNCHANGED <<input_params, pc, parsed_units, parse_error, safmr_group, group_idx,
                 property_summary>>
  /\ UNCHANGED <<report, calls>>

\* line 392: the inner range is exhausted, the outer loop takes the next group
NextUnitGroup ==
  /\ pc = "units"
  /\ group_idx <= Len(parsed_units)
  /\ inner_done >= parsed_units[group_idx].count
  /\ group_idx' = group_idx + 1
  /\ inner_done' = 0
  /\ UNCHANGED <<input_params, pc, parsed_units, parse_error, safmr_group, unit_number,
                 total_monthly_rent, units, property_summary>>
  /\ UNCHANGED <<report, calls>>

\* lines 419-424: the call of calculate_loan_payment raises; the exception
\* leaves analyze_multifamily_property, which returns nothing
RaiseFromLoanPayment ==
  /\ pc = "units"
  /\ group_idx > Len(parsed_units)
  /\ MonthlyPI(input_params).raised
  /\ pc' = "raised"
  /\ UNCHANGED <<input_params, parsed_units, parse_error, safmr_group, group_idx,
                 inner_done, unit_number, total_monthly_rent, units,
                 property_summary>>
  /\ UNCHANGED <<report, calls>>

\* lines 419-508: the financials; the summary dict is assigned anew
ComputeFinancials ==
  /\ pc = "units"
  /\ group_idx > Len(parsed_units)
  /\ ~MonthlyPI(input_params).raised
  /\ property_summary' =
       FinancialSummary(input_params, safmr_group.val,
                        RentTypeOf(input_params, safmr_group.val),
                        unit_number, total_monthly_rent)
  /\ pc' = "done"
  /\ UNCHANGED <<input_params, parsed_units, parse_error, safmr_group, group_idx,
                 inner_done, unit_number, total_monthly_rent, units>>
  /\ UNCHANGED <<report, calls>>

----------------------------------------------------------------------------
(* The neighborhood labels and the report.                                 *)

\* the items of the dict literal of lines 132-231, as written, in order
NeighborhoodItems ==
  <<
   [name |-> <<"C","e","n","t","e","r"," ","C","i","t","y"," ","C","o","r","e">>,
    zips |-> <<<<"1","9","1","0","2">>, <<"1","9","1","0","3">>, <<"1","9","1","0","7">>>>],
   [name |-> <<"O","l","d"," ","C","i","t","y"," ","/"," ","S","o","c","i","e","t","y"," ",
             "H","i","l","l"," ","/"," ","W","a","t","e","r","f","r","o","n","t">>,
    zips |-> <<<<"1","9","1","0","6">>>>],
   [name |-> <<"N","o","r","t","h","e","r","n"," ","L","i","b","e","r","t","i","e","s"," ",
             "/"," ","F","i","s","h","t","o","w","n"," ","(","S","o","u","t","h",")">>,
    zips |-> <<<<"1","9","1","2","3">>>>],
   [name |-> <<"F","a","i","r","m","o","u","n","t"," ","/"," ","A","r","t"," ","M","u","s",
             "e","u","m"," ","A","r","e","a">>,
    zips |-> <<<<"1","9","1","3","0">>>>],
   [name |-> <<"G","r","a","d","u","a","t","e"," ","H","o","s","p","i","t","a","l"," ","/",
             " ","F","i","t","l","e","r"," ","S","q","u","a","r","e">>,
    zips |-> <<<<"1","9","1","4","6">>>>],
   [name |-> <<"B","e","l","l","a"," ","V","i","s","t","a"," ","/"," ","Q","u","e","e","n",
             " ","V","i","l","l","a","g","e"," ","/"," ","P","e","n","n","s","p","o","r","t",
             " ","(","S","o","u","t","h"," ","P","h","i","l","l","y"," ","E","a","s","t",")">>,
    zips |-> <<<<"1","9","1","4","7">>>>],
   [name |-> <<"S","o","u","t","h"," ","P","h","i","l","l","y"," ","-"," ","E","a","s","t",
             " ","(","P","a","s","s","y","u","n","k",","," ","D","i","c","k","i","n","s","o",
             "n"," ","N","a","r","r","o","w","s",")">>,
    zips |-> <<<<"1","9","1","4","8">>>>],
   [name |-> <<"S","o","u","t","h"," ","P","h","i","l","l","y"," ","-"," ","W","e","s","t",
             " ","(","P","o","i","n","t"," ","B","r","e","e","z","e",","," ","N","e","w","b",
             "o","l","d",","," ","G","i","r","a","r","d"," ","E","s","t","a","t","e",")">>,
    zips |-> <<<<"1","9","1","4","5">>>>],
   [name |-> <<"S","o","u","t","h"," ","P","h","i","l","l","y"," ","-"," ","D","e","e","p",
             " ","S","o","u","t","h"," ","/"," ","S","t","a","d","i","u","m"," ","D","i","s",
             "t","r","i","c","t">>,
    zips |-> <<<<"1","9","1","1","2">>>>],
   [name |-> <<"U","n","i","v","e","r","s","i","t","y"," ","C","i","t","y"," ","/"," ","S",
             "p","r","u","c","e"," ","H","i","l","l"," ","/"," ","W","a","l","n","u","t"," ",
             "H","i","l","l">>,
    zips |-> <<<<"1","9","1","0","4">>>>],
   [name |-> <<"W","e","s","t"," ","P","h","i","l","l","y"," ","-"," ","C","e","n","t","r",
             "a","l"," ","(","C","e","d","a","r"," ","P","a","r","k",","," ","G","a","r","d",
             "e","n"," ","C","o","u","r","t",","," ","C","o","b","b","s"," ","C","r","e","e",
             "k",")">>,
    zips |-> <<<<"1","9","1","4","3">>>>],
   [name |-> <<"W","e","s","t"," ","P","h","i","l","l","y"," ","-"," ","N","o","r","t","h",
             " ","(","M","a","n","t","u","a",","," ","P","o","w","e","l","t","o","n"," ","V",
             "i","l","l","a","g","e",","," ","W","e","s","t"," ","P","o","w","e","l","t","o",
             "n",")">>,
    zips |-> <<<<"1","9","1","0","1">>, <<"1","9","1","3","9">>>>],
   [name |-> <<"O","v","e","r","b","r","o","o","k"," ","/"," ","W","y","n","n","e","f","i",
             "e","l","d">>,
    zips |-> <<<<"1","9","1","3","1">>>>],
   [name |-> <<"P","a","r","k","s","i","d","e"," ","/"," ","C","a","r","r","o","l","l"," ",
             "P","a","r","k">>,
    zips |-> <<<<"1","9","1","5","1">>>>],
   [name |-> <<"F","i","s","h","t","o","w","n"," ","(","N","o","r","t","h",")"," ","/"," ",
             "K","e","n","s","i","n","g","t","o","n"," ","(","S","o","u","t","h",")"," ","/",
             " ","P","o","r","t"," ","R","i","c","h","m","o","n","d"," ","(","S","o","u","t",
             "h",")">>,
    zips |-> <<<<"1","9","1","2","5">>>>],
   [name |-> <<"T","e","m","p","l","e"," ","U","n","i","v","e","r","s","i","t","y"," ","A",
             "r","e","a"," ","/"," ","L","o","w","e","r"," ","N","o","r","t","h"," ","P","h",
             "i","l","l","y">>,
    zips |-> <<<<"1","9","1","2","1">>, <<"1","9","1","2","2">>>>],
   [name |-> <<"B","r","e","w","e","r","y","t","o","w","n"," ","/"," ","S","h","a","r","s",
             "w","o","o","d"," ","/"," ","S","t","r","a","w","b","e","r","r","y"," ","M","a",
             "n","s","i","o","n"," ","(","E","a","s","t"," ","F","a","i","r","m","o","u","n",
             "t"," ","P","a","r","k",")">>,
    zips |-> <<<<"1","9","1","3","2">>>>],
   [name |-> <<"N","o","r","t","h"," ","P","h","i","l","l","y"," ","-"," ","E","a","s","t",
             " ","(","K","e","n","s","i","n","g","t","o","n",","," ","H","a","r","r","o","w",
             "g","a","t","e",","," ","F","a","i","r","h","i","l","l",")">>,
    zips |-> <<<<"1","9","1","3","3">>, <<"1","9","1","3","4">>>>],
   [name |-> <<"P","o","r","t"," ","R","i","c","h","m","o","n","d"," ","/"," ","B","r","i",
             "d","e","s","b","u","r","g"," ","/"," ","F","r","a","n","k","f","o","r","d"," ",
             "(","S","o","u","t","h",")">>,
    zips |-> <<<<"1","9","1","3","7">>>>],
   [name |-> <<"G","e","r","m","a","n","t","o","w","n">>,
    zips |-> <<<<"1","9","1","3","8">>, <<"1","9","1","4","4">>>>],
   [name |-> <<"M","o","u","n","t"," ","A","i","r","y">>,
    zips |-> <<<<"1","9","1","1","9">>>>],
   [name |-> <<"C","h","e","s","t","n","u","t"," ","H","i","l","l">>,
    zips |-> <<<<"1","9","1","1","8">>>>],
   [name |-> <<"R","o","x","b","o","r","o","u","g","h"," ","/"," ","M","a","n","a","y","u",
             "n","k"," ","/"," ","E","a","s","t"," ","F","a","l","l","s">>,
    zips |-> <<<<"1","9","1","2","7">>, <<"1","9","1","2","8">>, <<"1","9","1","2","9">>>>],
   [name |-> <<"L","o","w","e","r"," ","N","o","r","t","h","e","a","s","t"," ","(","F","r",
             "a","n","k","f","o","r","d",","," ","M","a","y","f","a","i","r",","," ","T","a",
             "c","o","n","y",")">>,
    zips |-> <<<<"1","9","1","2","4">>, <<"1","9","1","3","5">>, <<"1","9","1","3","6">>>>],
   [name |-> <<"C","e","n","t","r","a","l"," ","N","o","r","t","h","e","a","s","t"," ","(",
             "R","h","a","w","n","h","u","r","s","t",","," ","F","o","x"," ","C","h","a","s",
             "e",","," ","B","u","s","t","l","e","t","o","n",")">>,
    zips |-> <<<<"1","9","1","1","1">>, <<"1","9","1","1","5">>, <<"1","9","1","5","2">>>>],
   [name |-> <<"F","a","r"," ","N","o","r","t","h","e","a","s","t"," ","(","S","o","m","e",
             "r","t","o","n",","," ","T","o","r","r","e","s","d","a","l","e",","," ","P","a",
             "r","k","w","o","o","d",")">>,
    zips |-> <<<<"1","9","1","1","4">>, <<"1","9","1","1","6">>, <<"1","9","1","5","4">>>>],
   [name |-> <<"O","l","n","e","y"," ","/"," ","L","o","g","a","n"," ","/"," ","F","e","l",
             "t","o","n","v","i","l","l","e">>,
    zips |-> <<<<"1","9","1","2","0">>, <<"1","9","1","4","1">>>>],
   [name |-> <<"O","x","f","o","r","d"," ","C","i","r","c","l","e"," ","/"," ","L","a","w",
             "n","c","r","e","s","t">>,
    zips |-> <<<<"1","9","1","4","9">>>>],
   [name |-> <<"E","a","s","t"," ","O","a","k"," ","L","a","n","e"," ","/"," ","W","e","s",
             "t"," ","O","a","k"," ","L","a","n","e">>,
    zips |-> <<<<"1","9","1","2","6">>>>],
   [name |-> <<"P","e","n","n","y","p","a","c","k"," ","/"," ","H","o","l","m","e","s","b",
             "u","r","g">>,
    zips |-> <<<<"1","9","1","5","0">>>>],
   [name |-> <<"C","e","n","t","e","r"," ","C","i","t","y"," ","C","o","r","e"," ","/"," ",
             "C","o","n","v","e","n","t","i","o","n"," ","C","e","n","t","e","r">>,
    zips |-> <<<<"1","9","1","0","2">>,<<"1","9","1","0","3">>,<<"1","9","1","0","7">>,
               <<"1","9","1","0","9">>>>],
   [name |-> <<"O","l","d"," ","C","i","t","y"," ","/"," ","S","o","c","i","e","t","y"," ",
             "H","i","l","l"," ","/"," ","I","n","d","e","p","e","n","d","e","n","c","e"," ",
             "H","a","l","l">>,
    zips |-> <<<<"1","9","1","0","6">>, <<"1","9","1","0","5">>>>],
   [name |-> <<"N","o","r","t","h","e","r","n"," ","L","i","b","e","r","t","i","e","s"," ",
             "/"," ","F","i","s","h","t","o","w","n"," ","(","S","o","u","t","h",")">>,
    zips |-> <<<<"1","9","1","2","3">>>>],
   [name |-> <<"F","a","i","r","m","o","u","n","t"," ","/"," ","A","r","t"," ","M","u","s",
             "e","u","m"," ","A","r","e","a">>,
    zips |-> <<<<"1","9","1","3","0">>>>],
   [name |-> <<"G","r","a","d","u","a","t","e"," ","H","o","s","p","i","t","a","l"," ","/",
             " ","F","i","t","l","e","r"," ","S","q","u","a","r","e">>,
    zips |-> <<<<"1","9","1","4","6">>>>],
   [name |-> <<"B","e","l","l","a"," ","V","i","s","t","a"," ","/"," ","Q","u","e","e","n",
             " ","V","i","l","l","a","g","e"," ","/"," ","P","e","n","n","s","p","o","r","t">>,
    zips |-> <<<<"1","9","1","4","7">>>>],
   [name |-> <<"S","o","u","t","h"," ","P","h","i","l","l","y"," ","-"," ","E","a","s","t",
             " ","(","P","a","s","s","y","u","n","k",","," ","D","i","c","k","i","n","s","o",
             "n"," ","N","a","r","r","o","w","s",")">>,
    zips |-> <<<<"1","9","1","4","8">>>>],
   [name |-> <<"S","o","u","t","h"," ","P","h","i","l","l","y"," ","-"," ","W","e","s","t",
             " ","(","P","o","i","n","t"," ","B","r","e","e","z","e",","," ","N","e","w","b",
             "o","l","d",","," ","G","i","r","a","r","d"," ","E","s","t","a","t","e",")">>,
    zips |-> <<<<"1","9","1","4","5">>>>],
   [name |-> <<"S","o","u","t","h"," ","P","h","i","l","l","y"," ","-"," ","D","e","e","p",
             " ","S","o","u","t","h"," ","/"," ","S","t","a","d","i","u","m"," ","D","i","s",
             "t","r","i","c","t"," ","/"," ","N","a","v","y"," ","Y","a","r","d">>,
    zips |-> <<<<"1","9","1","1","2">>>>],
   [name |-> <<"U","n","i","v","e","r","s","i","t","y"," ","C","i","t","y"," ","/"," ","S",
             "p","r","u","c","e"," ","H","i","l","l"," ","/"," ","W","a","l","n","u","t"," ",
             "H","i","l","l">>,
    zips |-> <<<<"1","9","1","0","4">>>>],
   [name |-> <<"W","e","s","t"," ","P","h","i","l","l","y"," ","-"," ","C","e","n","t","r",
             "a","l"," ","(","C","e","d","a","r"," ","P","a","r","k",","," ","G","a","r","d",
             "e","n"," ","C","o","u","r","t",","," ","C","o","b","b","s"," ","C","r","e","e",
             "k",")">>,
    zips |-> <<<<"1","9","1","4","3">>>>],
   [name |-> <<"W","e","s","t"," ","P","h","i","l","l","y"," ","-"," ","N","o","r","t","h",
             " ","(","M","a","n","t","u","a",","," ","P","o","w","e","l","t","o","n",","," ",
             "M","i","l","l"," ","C","r","e","e","k",")">>,
    zips |-> <<<<"1","9","1","3","9">>>>],
   [name |-> <<"O","v","e","r","b","r","o","o","k"," ","/"," ","W","y","n","n","e","f","i",
             "e","l","d">>,
    zips |-> <<<<"1","9","1","3","1">>>>],
   [name |-> <<"P","a","r","k","s","i","d","e"," ","/"," ","C","a","r","r","o","l","l"," ",
             "P","a","r","k"," ","/"," ","H","a","d","d","i","n","g","t","o","n">>,
    zips |-> <<<<"1","9","1","5","1">>>>],
   [name |-> <<"F","i","s","h","t","o","w","n"," ","(","N","o","r","t","h",")"," ","/"," ",
             "K","e","n","s","i","n","g","t","o","n"," ","(","S","o","u","t","h",")"," ","/",
             " ","P","o","r","t"," ","R","i","c","h","m","o","n","d"," ","(","S","o","u","t",
             "h",")">>,
    zips |-> <<<<"1","9","1","2","5">>>>],
   [name |-> <<"T","e","m","p","l","e"," ","U","n","i","v","e","r","s","i","t","y"," ","A",
             "r","e","a"," ","/"," ","L","o","w","e","r"," ","N","o","r","t","h"," ","P","h",
             "i","l","l","y"," ","(","Y","o","r","k","t","o","w","n",","," ","L","u","d","l",
             "o","w",")">>,
    zips |-> <<<<"1","9","1","2","1">>, <<"1","9","1","2","2">>>>],
   [name |-> <<"B","r","e","w","e","r","y","t","o","w","n"," ","/"," ","S","h","a","r","s",
             "w","o","o","d"," ","/"," ","S","t","r","a","w","b","e","r","r","y"," ","M","a",
             "n","s","i","o","n">>,
    zips |-> <<<<"1","9","1","3","2">>>>],
   [name |-> <<"N","o","r","t","h"," ","P","h","i","l","l","y"," ","-"," ","E","a","s","t",
             " ","(","K","e","n","s","i","n","g","t","o","n",","," ","H","a","r","r","o","w",
             "g","a","t","e",","," ","F","a","i","r","h","i","l","l",","," ","J","u","n","i",
             "a","t","a",")">>,
    zips |-> <<<<"1","9","1","3","3">>, <<"1","9","1","3","4">>>>],
   [name |-> <<"P","o","r","t"," ","R","i","c","h","m","o","n","d"," ","/"," ","B","r","i",
             "d","e","s","b","u","r","g">>,
    zips |-> <<<<"1","9","1","3","7">>>>],
   [name |-> <<"N","o","r","t","h"," ","P","h","i","l","l","y"," ","-"," ","C","e","n","t",
             "r","a","l"," ","(","N","i","c","e","t","o","w","n","-","T","i","o","g","a",",",
             " ","H","u","n","t","i","n","g"," ","P","a","r","k",")">>,
    zips |-> <<<<"1","9","1","4","0">>>>],
   [name |-> <<"G","e","r","m","a","n","t","o","w","n"," ","(","E","a","s","t"," ","&"," ",
             "W","e","s","t",")">>,
    zips |-> <<<<"1","9","1","3","8">>, <<"1","9","1","4","4">>>>],
   [name |-> <<"M","o","u","n","t"," ","A","i","r","y"," ","/"," ","C","e","d","a","r","b",
             "r","o","o","k">>,
    zips |-> <<<<"1","9","1","1","9">>, <<"1","9","1","5","0">>>>],
   [name |-> <<"W","e","s","t"," ","O","a","k"," ","L","a","n","e"," ","/"," ","E","a","s",
             "t"," ","O","a","k"," ","L","a","n","e">>,
    zips |-> <<<<"1","9","1","2","6">>>>],
   [name |-> <<"C","h","e","s","t","n","u","t"," ","H","i","l","l">>,
    zips |-> <<<<"1","9","1","1","8">>>>],
   [name |-> <<"R","o","x","b","o","r","o","u","g","h"," ","/"," ","M","a","n","a","y","u",
             "n","k"," ","/"," ","E","a","s","t"," ","F","a","l","l","s">>,
    zips |-> <<<<"1","9","1","2","7">>, <<"1","9","1","2","8">>, <<"1","9","1","2","9">>>>],
   [name |-> <<"L","o","w","e","r"," ","N","o","r","t","h","e","a","s","t"," ","(","F","r",
             "a","n","k","f","o","r","d",","," ","M","a","y","f","a","i","r",","," ","T","a",
             "c","o","n","y",","," ","W","i","s","s","i","n","o","m","i","n","g",")">>,
    zips |-> <<<<"1","9","1","2","4">>, <<"1","9","1","3","5">>, <<"1","9","1","3","6">>>>],
   [name |-> <<"C","e","n","t","r","a","l"," ","N","o","r","t","h","e","a","s","t"," ","(",
             "R","h","a","w","n","h","u","r","s","t",","," ","F","o","x"," ","C","h","a","s",
             "e",","," ","B","u","s","t","l","e","t","o","n",","," ","S","o","m","e","r","t",
             "o","n"," ","W","e","s","t",")">>,
    zips |-> <<<<"1","9","1","1","1">>, <<"1","9","1","1","5">>, <<"1","9","1","5","2">>>>],
   [name |-> <<"F","a","r"," ","N","o","r","t","h","e","a","s","t"," ","(","S","o","m","e",
             "r","t","o","n"," ","E","a","s","t",","," ","T","o","r","r","e","s","d","a","l",
             "e",","," ","P","a","r","k","w","o","o","d",","," ","B","y","b","e","r","r","y",
             ")">>,
    zips |-> <<<<"1","9","1","1","4">>, <<"1","9","1","1","6">>, <<"1","9","1","5","4">>>>],
   [name |-> <<"O","l","n","e","y"," ","/"," ","L","o","g","a","n"," ","/"," ","F","e","l",
             "t","o","n","v","i","l","l","e">>,
    zips |-> <<<<"1","9","1","2","0">>, <<"1","9","1","4","1">>>>],
   [name |-> <<"O","x","f","o","r","d"," ","C","i","r","c","l","e"," ","/"," ","L","a","w",
             "n","c","r","e","s","t"," ","/"," ","L","a","w","n","d","a","l","e">>,
    zips |-> <<<<"1","9","1","4","9">>>>],
   [name |-> <<"S","o","u","t","h","w","e","s","t"," ","P","h","i","l","l","y"," ","(","E",
             "a","s","t","w","i","c","k",","," ","E","l","m","w","o","o","d",","," ","C","l",
             "e","a","r","v","i","e","w",")">>,
    zips |-> <<<<"1","9","1","4","2">>, <<"1","9","1","5","3">>>>],
   [name |-> <<"C","e","n","t","e","r"," ","C","i","t","y"," ","-"," ","3","0","t","h"," ",
             "S","t","r","e","e","t"," ","S","t","a","t","i","o","n"," ","A","r","e","a">>,
    zips |-> <<<<"1","9","1","0","1">>>>],
   [name |-> <<"S","p","e","c","i","a","l","/","I","n","d","u","s","t","r","i","a","l","/",
             "N","o","n","-","R","e","s","i","d","e","n","t","i","a","l">>,
    zips |-> <<<<"1","9","1","1","0">>>>]
  >>

\* the dict a literal builds: a key keeps the place of its first occurrence
\* and takes the value of its last
DictLiteral(items) ==
  LET last(i) == CHOOSE j \in i..Len(items) :
                   /\ items[j].name = items[i].name
                   /\ \A m \in (j + 1)..Len(items) : items[m].name # items[i].name
      F[i \in 0..Len(items)] ==
        IF i = 0 THEN <<>>
        ELSE IF \E j \in 1..(i - 1) : items[j].name = items[i].name
             THEN F[i - 1]
             ELSE Append(F[i - 1], [name |-> items[i].name, zips |-> items[last(i)].zips])
  IN  F[Len(items)]

NEIGHBORHOOD_ZIP_GROUPINGS == DictLiteral(NeighborhoodItems)

MsgZip == <<"Z","I","P"," ">>
MsgAreaNoMapping ==
  <<" ","A","r","e","a"," ","(","N","o"," ","s","p","e","c","i","f","i","c"," ","n","e","i","g","h","b","o","r","h","o","o","d">> \o
  <<" ","m","a","p","p","i","n","g"," ","a","v","a","i","l","a","b","l","e",")">>

\* `zip_code_str in zips`
InList(x, list) == \E k \in 1..Len(list) : list[k] = x

\* get_client_friendly_neighborhood returning the entry defined last among
\* those that list the postal code
get_client_friendly_neighborhood_LastMatch(zip_code) ==
  LET hits == {i \in 1..Len(NEIGHBORHOOD_ZIP_GROUPINGS) :
                 InList(zip_code, NEIGHBORHOOD_ZIP_GROUPINGS[i].zips)}
  IN  IF hits = {} THEN MsgZip \o zip_code \o MsgAreaNoMapping
      ELSE NEIGHBORHOOD_ZIP_GROUPINGS[CHOOSE i \in hits : \A j \in hits : j <= i].name

\* lines 233-240: the items are walked in dict order and the first one whose
\* list holds the postal code returns its label
get_client_friendly_neighborhood(zip_code) ==
  LET hits == {i \in 1..Len(NEIGHBORHOOD_ZIP_GROUPINGS) :
                 InList(zip_code, NEIGHBORHOOD_ZIP_GROUPINGS[i].zips)}
  IN  IF hits = {} THEN MsgZip \o zip_code \o MsgAreaNoMapping
      ELSE NEIGHBORHOOD_ZIP_GROUPINGS[CHOOSE i \in hits : \A j \in hits : i <= j].name

\* one write to the output buffer: the text as written in the source, with
\* {} for each formatted value, and the values in order (number formats such
\* as :,.2f are not applied: a line carries the value itself)
Line(text, args) == [text |-> text, args |-> args]

Rule == Line("--------------------------------------------------", <<>>)

MsgNoValidUnitsFound == <<"N","o"," ","v","a","l","i","d"," ","u","n","i","t","s"," ","f","o","u","n","d">>

\* lines 557-563: the line of one unit of the breakdown
UnitLine(unit) ==
  IF "error" \in DOMAIN unit
  THEN Line("  Unit {} (Input: '{}'): Error - {}",
            <<unit.unit_number, unit.bedrooms_str, unit.error>>)
  ELSE Line("  Unit {} (Input: '{}', Type: {}): ${}/mo (Group {})",
            <<unit.unit_number, unit.bedrooms_str, unit.rent_type, unit.pha_rent,
              unit.safmr_group>>)

\* lines 556-570: the unit breakdown
UnitBreakdown(units_info, summary) ==
  LET valid_units_for_rent_calc ==
        Cardinality({i \in 1..Len(units_info) : "error" \notin DOMAIN units_info[i]})
      total_monthly_pha_rent == DictGet(summary, "total_potential_pha_rent_monthly", Zero)
  IN  <<Line("Unit Breakdown (Potential PHA Rents) - Total {} units processed:",
             <<Len(units_info)>>)>>
      \o [i \in 1..Len(units_info) |-> UnitLine(units_info[i])]
      \o (IF valid_units_for_rent_calc < Len(units_info)
          THEN <<Line("  ({} of {} units were valid for rent calculation)",
                      <<valid_units_for_rent_calc, Len(units_info)>>)>>
          ELSE <<>>)
      \o <<Line("  Total Potential Monthly PHA Rent (All Valid Units): ${}",
                <<total_monthly_pha_rent>>),
           Rule>>

\* lines 572-575
FinancingSection(summary, params) ==
  <<Line("Property Financial Summary:", <<>>),
    Line("  Acquisition Price: ${}", <<R(params.property_price)>>),
    Line("  Down Payment ({}%): ${}",
         <<params.down_payment_percent, DictGet(summary, "down_payment_amount", Zero)>>),
    Rule>>

\* lines 577-597
DebtServiceSection(summary) ==
  LET total_monthly_pha_rent == DictGet(summary, "total_potential_pha_rent_monthly", Zero)
      monthly_piti == DictGet(summary, "monthly_piti", Zero)
      simple_cash_flow_monthly == Sub(total_monthly_pha_rent, monthly_piti)
  IN  <<Line("Monthly Debt Service (PITI) & Basic Cash Flow:", <<>>),
        Line("  Total Monthly PITI: ${}", <<monthly_piti>>),
        Line("    Principal & Interest (P&I): ${}",
             <<DictGet(summary, "monthly_principal_interest", Zero)>>),
        Line("    Property Taxes (T): ${}", <<DictGet(summary, "monthly_taxes", Zero)>>),
        Line("    Property Insurance (I): ${}",
             <<DictGet(summary, "monthly_insurance", Zero)>>),
        IF simple_cash_flow_monthly.n >= 0
        THEN Line("  Basic Monthly Cash Flow (Total Rent - PITI): ${}",
                  <<simple_cash_flow_monthly>>)
        ELSE Line("  Basic Monthly Cash Flow (Total Rent - PITI): -${} (Loss)",
                  <<Neg(simple_cash_flow_monthly)>>),
        IF Gt0(monthly_piti)
        THEN Line("  Rent to PITI Multiple: {}x",
                  <<Div(total_monthly_pha_rent, monthly_piti)>>)
        ELSE IF Gt0(total_monthly_pha_rent) /\ Eq0(monthly_piti)
        THEN Line("  Rent to PITI Multiple: Infinite (PITI is $0, Rent > $0)", <<>>)
        ELSE Line("  Rent to PITI Multiple: N/A", <<>>),
        Rule>>

\* lines 599-611
IncomeExpenseSection(summary, params) ==
  LET total_monthly_pha_rent == DictGet(summary, "total_potential_pha_rent_monthly", Zero)
      gpr_annual == Mul(total_monthly_pha_rent, R(12))
  IN  <<Line("Annual Operating Income & Expenses:", <<>>),
        Line("  Gross Potential Rent (GPR): ${}", <<gpr_annual>>),
        Line("  Vacancy Allowance ({}% of GPR): -${}",
             <<params.vacancy_rate_percent,
               DictGet(summary, "vacancy_allowance_annual", Zero)>>),
        Line("  Effective Gross Income (EGI): ${}",
             <<DictGet(summary, "effective_gross_income_annual", Zero)>>),
        Line("  Operating Expenses (Annual):", <<>>),
        Line("    Property Taxes: ${}", <<R(params.annual_property_taxes)>>),
        Line("    Property Insurance: ${}", <<R(params.annual_home_insurance)>>),
        Line("    Repairs & Maintenance ({}% of GPR): ${}",
             <<params.repairs_maintenance_percent,
               DictGet(summary, "repairs_allowance_annual", Zero)>>),
        Line("    Property Management ({}% of GPR): ${}",
             <<params.property_management_percent,
               DictGet(summary, "management_fee_annual", Zero)>>),
        Line("    Other Operating Expenses: ${}", <<R(params.other_opex_annual)>>),
        Line("  Net Operating Income (NOI): ${}", <<DictGet(summary, "noi_annual", Zero)>>),
        Rule>>

\* lines 613-632
ReturnsSection(summary) ==
  LET coc == DictGet(summary, "cash_on_cash_return_percent", Zero)
      cap_rate == DictGet(summary, "cap_rate_percent", Zero)
  IN  <<Line("Cash Flow & Returns (Comprehensive):", <<>>),
        Line("  Annual Debt Service (P&I): ${}",
             <<DictGet(summary, "annual_debt_service", Zero)>>),
        Line("  Comprehensive Cash Flow Before Tax (Annual - CFBT): ${}",
             <<DictGet(summary, "cash_flow_before_tax_annual", Zero)>>),
        Line("  Comprehensive Cash Flow Before Tax (Monthly - CFBT): ${}",
             <<DictGet(summary, "cash_flow_before_tax_monthly", Zero)>>),
        IF coc = Inf THEN Line("  Cash-on-Cash Return: Infinite", <<>>)
        ELSE IF coc = NegInf
        THEN Line("  Cash-on-Cash Return: N/A (Negative CF on $0 Down or $0 Investment with Negative CF)",
                  <<>>)
        ELSE Line("  Cash-on-Cash Return: {}%", <<coc>>),
        IF cap_rate = Inf
        THEN Line("  Capitalization Rate (Cap Rate): Infinite (NOI > 0, Price = $0)", <<>>)
        ELSE Line("  Capitalization Rate (Cap Rate): {}%", <<cap_rate>>),
        Line("  Gross Rent Multiplier (GRM): {}", <<DictGet(summary, "grm", Zero)>>),
        Rule>>

\* lines 634-637
ProjectionsSection(summary) ==
  <<Line("Longer-Term Projections (Simplified):", <<>>),
    Line("  Gross Potential Revenue (5 Years): ${}",
         <<DictGet(summary, "gross_revenue_5_years", Zero)>>),
    Line("  Est. Net Operating Income (NOI, 5 Years): ${}",
         <<DictGet(summary, "noi_5_years", Zero)>>),
    Rule>>

\* lines 537-541: the header
Header(params) ==
  <<Line("--- MULTIFAMILY CALCULATION RESULTS ---", <<>>),
    Line("PHA Payment Standards: {}", <<PaymentYearOf(params)>>),
    Line("Input Unit String: {}", <<params.unit_bedroom_counts_str>>),
    Line("Property ZIP Code: {}", <<params.property_zip_code>>),
    Line("Client-Friendly Area: {}",
         <<get_client_friendly_neighborhood(params.property_zip_code)>>)>>

\* summary.get(key) is truthy: the key is there with a non-empty string
GetTruthy(summary, key) == key \in DOMAIN summary /\ Len(summary[key]) > 0

\* lines 510-649; the pictographs that open the error and note lines are
\* left out of the texts
format_results_as_string(units_info, summary, params) ==
  Header(params) \o
  (IF GetTruthy(summary, "error") /\ ~GetTruthy(summary, "unit_errors")
   THEN <<Line("Error during calculation: {}", <<summary.error>>)>>
        \o (IF "unit_errors" \in DOMAIN summary
            THEN <<Line("Individual Unit Errors: {}", <<summary.unit_errors>>)>>
            ELSE <<>>)
   ELSE IF /\ GetTruthy(summary, "error")
           /\ GetTruthy(summary, "unit_errors")
           /\ Contains(summary.error, MsgNoValidUnitsFound)
   THEN <<Line("Error: {}", <<summary.error>>),
          Line("Details on Unit Parsing: {}", <<summary.unit_errors>>)>>
   ELSE (IF GetTruthy(summary, "unit_errors")
         THEN <<Line("Note on Units/Parsing: {}", <<summary.unit_errors>>)>>
         ELSE <<>>)
        \o <<Rule>>
        \o UnitBreakdown(units_info, summary)
        \o FinancingSection(summary, params)
        \o DebtServiceSection(summary)
        \o IncomeExpenseSection(summary, params)
        \o ReturnsSection(summary)
        \o ProjectionsSection(summary))

\* the caller passes the returned result and the bundle to
\* format_results_as_string
FormatResults ==
  /\ pc = "done"
  /\ report = <<>>
  /\ report' = format_results_as_string(units, property_summary, input_params)
  /\ UNCHANGED <<input_params, pc, parsed_units, parse_error, safmr_group, group_idx,
                 inner_done, unit_number, total_monthly_rent, units, property_summary,
                 calls>>

Next ==
  \/ ParseUnitMix
  \/ ReturnNoUnits
  \/ ReturnZipNotFound
  \/ EnterUnitLoop
  \/ ProcessUnit
  \/ NextUnitGroup
  \/ RaiseFromLoanPayment
  \/ ComputeFinancials
  \/ FormatResults

----------------------------------------------------------------------------
(* The calls explored: bundles drawn from small sets of inputs.            *)

\* the largest unit count of the generated well-formed tokens
MaxCount == 2

\* "<count>x<bedrooms>BR"
Token(count, bedrooms) ==
  IntToStr(count) \o <<"x">> \o IntToStr(bedrooms) \o <<"B", "R">>

\* the separators between the tokens of a well-formed mix
Separators == {<<",", " ">>, <<";">>, <<" ", "a", "n", "d", " ">>}

\* the groups of the well-formed mixes of more than one token
WellFormedGroups ==
  {<<[count |-> 6, bedrooms |-> 2], [count |-> 4, bedrooms |-> 1]>>,
   <<[count |-> 1, bedrooms |-> 3], [count |-> 2, bedrooms |-> 0]>>}

\* the text of a mix: the tokens of the groups, joined by a separator
RECURSIVE MixOf(_, _)
MixOf(groups, sep) ==
  IF Len(groups) = 0 THEN <<>>
  ELSE IF Len(groups) = 1 THEN Token(groups[1].count, groups[1].bedrooms)
  ELSE Token(groups[1].count, groups[1].bedrooms) \o sep \o MixOf(Tail(groups), sep)

UnitMixes ==
  {Token(c, 1) : c \in 0..MaxCount}
  \cup {MixOf(<<[count |-> 6, bedrooms |-> 2], [count |-> 4, bedrooms |-> 1]>>,
               <<",", " ">>),
        MixOf(<<[count |-> 1, bedrooms |-> 3], [count |-> 2, bedrooms |-> 0]>>,
               <<" ", "a", "n", "d", " ">>),
        MixOf(<<[count |-> 1, bedrooms |-> 3], [count |-> 2, bedrooms |-> 0]>>,
               <<";">>)}
  \cup {Token(2, 9),
        Token(1, 1) \o <<",", " ">> \o Token(1, 9),
        Token(1, 9) \o <<";">> \o Token(2, 0),
        Token(1, 2) \o <<",", " ">> \o <<"a", "b", "c">>,
        <<"3", "x", "S", "R", "O">>,
        Token(0, 2) \o <<",", " ">> \o Token(1, 1),
        <<"-">> \o Token(1, 2) \o <<",", " ">> \o Token(1, 1),
        <<>>,
        <<" ", " ">>}
  \cup {<<"2", "x", "S", "T", "U", "D", "I", "O">>,
        Token(2, 1) \o <<" ">> \o Token(3, 2),
        <<"1", " ", "X", " ", "2", " ", "b", "r">>}

ZipCodes ==
  {<<"1","9","1","2","0">>, <<"1","9","1","0","2">>, <<"9","9","9","9","9">>}

\* the optional 'payment_year' of the bundle: absent, or a year
PaymentYears == {None, Some(Year2024), Some(Year2025)}

Prices == {0, 100000}
DownPaymentPercents == {-10, 0, 20, 100, 150}
\* annual rates in percent: 0, 1200 (a monthly rate of 1) and 2^-60
InterestRates == {Scaled(R(0), 0), Scaled(R(1200), 0), Scaled(R(1), 60)}
LoanTerms == {0, 1}
\* (annual_property_taxes, annual_home_insurance, other_opex_annual)
FixedExpenses == {<<0, 0, 0>>, <<1200, 600, 500>>}
VacancyRates == {0, 5, 100}
\* (repairs_maintenance_percent, property_management_percent)
PercentExpenses == {<<0, 0>>, <<10, 8>>}

\* the parameter bundle the caller builds from its inputs
Bundle(z, u, y, p, dp, ir, lt, fx, v, px) ==
  LET params == [property_zip_code |-> z,
                 unit_bedroom_counts_str |-> u,
                 property_price |-> p,
                 down_payment_percent |-> dp,
                 interest_rate |-> ir,
                 loan_term_years |-> lt,
                 annual_property_taxes |-> fx[1],
                 annual_home_insurance |-> fx[2],
                 vacancy_rate_percent |-> v,
                 repairs_maintenance_percent |-> px[1],
                 property_management_percent |-> px[2],
                 other_opex_annual |-> fx[3]]
  IN  IF y.none THEN params ELSE ("payment_year" :> y.text) @@ params

\* the locals of analyze_multifamily_property before its first statement
EntryState ==
  /\ pc = "start"
  /\ parsed_units = <<>>
  /\ parse_error = None
  /\ safmr_group = NoneInt
  /\ group_idx = 0
  /\ inner_done = 0
  /\ unit_number = 0
  /\ total_monthly_rent = Zero
  /\ units = <<>>
  /\ property_summary = EmptyDict
  /\ report = <<>>

\* postal-code strings for the neighborhood lookup: 19100 .. 19159, which
\* cover every code of the neighborhood table, and three that are no code
SweepZips ==
  {<<"1", "9", "1", DigitChar(a), DigitChar(b)>> : a \in 0..5, b \in 0..9}
  \cup {<<>>, <<"1", "9", "1", "0">>, <<"a", "b", "c">>}

\* one property analysed for each of the swept postal codes
SweepBundle(z, y) ==
  Bundle(z, Token(1, 1), y, 100000, 20, Scaled(R(0), 0), 1, <<1200, 600, 500>>, 5,
         <<10, 8>>)

\* the state at the entry of analyze_multifamily_property
Init ==
  /\ \/ \E z \in ZipCodes, u \in UnitMixes, y \in PaymentYears, p \in Prices,
           dp \in DownPaymentPercents, ir \in InterestRates, lt \in LoanTerms,
           fx \in FixedExpenses, v \in VacancyRates, px \in PercentExpenses :
          input_params = Bundle(z, u, y, p, dp, ir, lt, fx, v, px)
     \/ \E z \in SweepZips, y \in PaymentYears : input_params = SweepBundle(z, y)
  /\ EntryState
  /\ calls = <<>>

Spec == Init /\ [][Next]_vars

----------------------------------------------------------------------------
(* The calls of one process, one after the other: the application's, with  *)
(* the bundle it builds, and direct ones.                                  *)

\* streamlit_app.py lines 586-592: the application calls only with a postal
\* code selected and a mix that is not blank
AppAccepts(zip_code, unit_mix_str) ==
  Len(zip_code) > 0 /\ Len(Strip(unit_mix_str)) > 0

\* streamlit_app.py lines 595-608: the bundle the application builds
AppBundle(zip_code, unit_mix_str, payment_year, property_price, down_payment, interest_rate, loan_term_years, annual_property_tax, annual_insurance, vacancy_rate, maintenance_rate, management_fee_rate) ==
  [property_zip_code |-> zip_code,
   unit_mix_str |-> unit_mix_str,
   property_price |-> property_price,
   down_payment_percent |-> down_payment,
   interest_rate |-> interest_rate,
   loan_term_years |-> loan_term_years,
   annual_property_tax |-> annual_property_tax,
   annual_insurance |-> annual_insurance,
   vacancy_rate |-> vacancy_rate,
   maintenance_rate |-> maintenance_rate,
   management_fee_rate |-> management_fee_rate,
   payment_year |-> payment_year]

\* the application's defaults for the widgets, with either edition and two
\* postal codes
AppBundles ==
  LET zips == {<<"1","9","1","2","0">>, <<"1","9","1","0","2">>}
      mixes == {MixOf(<<[count |-> 6, bedrooms |-> 2], [count |-> 4, bedrooms |-> 1]>>,
                      <<",", " ">>),
                <<" ", " ">>}
  IN  {AppBundle(zu[1], zu[2], y, 500000, 25, Scaled(R(7), 0), 30, 5000, 2000, 5, 10, 8) :
         zu \in {in \in zips \X mixes : AppAccepts(in[1], in[2])},
         y \in {Year2024, Year2025}}

\* bundles of direct calls: two properties in either edition, an unknown
\* postal code, an empty mix and a rate on which the loan payment raises
DirectBundles ==
  LET mix == Token(1, 1) \o <<",", " ">> \o Token(1, 9)
      fx == <<1200, 600, 500>>
      px == <<10, 8>>
  IN  {Bundle(<<"1","9","1","2","0">>, mix, None, 100000, 20, Scaled(R(0), 0), 1, fx, 5, px),
       Bundle(<<"1","9","1","2","0">>, mix, Some(Year2025), 100000, 20, Scaled(R(0), 0), 1,
              fx, 5, px),
       Bundle(<<"9","9","9","9","9">>, mix, None, 100000, 20, Scaled(R(0), 0), 1, fx, 5, px),
       Bundle(<<"1","9","1","2","0">>, <<>>, None, 100000, 20, Scaled(R(0), 0), 1, fx, 5, px),
       Bundle(<<"1","9","1","2","0">>, mix, None, 100000, 20, Scaled(R(1), 60), 1, fx, 5, px)}

CallBundles == DirectBundles \cup AppBundles

\* the number of finished calls the history keeps
MaxCalls == 2

\* what the caller got from the call that has ended: the result, or the
\* exception
Outcome ==
  IF pc = "done"
  THEN [ended |-> pc, units |-> units, property_summary |-> property_summary]
  ELSE [ended |-> pc, units |-> <<>>, property_summary |-> EmptyDict]

\* the call has ended and the process calls again, with any bundle: the
\* locals of the new call are new, the objects of the last result remain
CallAgain ==
  /\ pc \in {"done", "raised", "KeyError"}
  /\ Len(calls) < MaxCalls
  /\ calls' = Append(calls, [params |-> input_params, outcome |-> Outcome])
  /\ input_params' \in CallBundles
  /\ pc' = "start"
  /\ parsed_units' = <<>>
  /\ parse_error' = None
  /\ safmr_group' = NoneInt
  /\ group_idx' = 0
  /\ inner_done' = 0
  /\ unit_number' = 0
  /\ total_monthly_rent' = Zero
  /\ report' = <<>>
  /\ UNCHANGED <<units, property_summary>>

InitCalls ==
  /\ input_params \in CallBundles
  /\ EntryState
  /\ calls = <<>>

NextCalls ==
  \/ Next
  \/ RaiseKeyError
  \/ CallAgain

SpecCalls == InitCalls /\ [][NextCalls]_vars

----------------------------------------------------------------------------
(* Vocabulary of the properties.                                           *)

Returned == pc = "done"

\* the keys of the summary that carry a financial figure
FinancialKeys ==
  {"total_potential_pha_rent_monthly", "down_payment_amount", "loan_amount",
   "monthly_principal_interest", "monthly_taxes", "monthly_insurance",
   "monthly_piti", "monthly_maintenance", "monthly_management_fee",
   "monthly_debt_service", "gross_potential_rent_annual",
   "vacancy_allowance_annual", "effective_gross_income_annual",
   "repairs_allowance_annual", "management_fee_annual",
   "total_operating_expenses_annual", "noi_annual", "annual_debt_service",
   "cash_flow_before_tax_annual", "cash_flow_before_tax_monthly",
   "cash_on_cash_return_percent", "cap_rate_percent", "grm",
   "gross_revenue_5_years", "noi_5_years"}

HasError(d) == "error" \in DOMAIN d
NoFinancialField(d) == DOMAIN d \cap FinancialKeys = {}
AllFinancialFields(d) == FinancialKeys \subseteq DOMAIN d

\* the bedroom number of every unit the parsed groups stand for, in order
RECURSIVE ExpandedBedrooms(_)
ExpandedBedrooms(groups) ==
  IF Len(groups) = 0 THEN <<>>
  ELSE [i \in 1..Head(groups).count |-> Head(groups).bedrooms]
       \o ExpandedBedrooms(Tail(groups))

\* the bedroom numbers the tables of both editions have a ceiling for
HasCeiling(bedrooms) == bedrooms \in 0..8

\* the sum of the ceilings of the unit records that carry no failure reason
RECURSIVE SumResolved(_)
SumResolved(us) ==
  IF Len(us) = 0 THEN Zero
  ELSE IF "error" \in DOMAIN Head(us) THEN SumResolved(Tail(us))
  ELSE Add(Head(us).pha_rent, SumResolved(Tail(us)))

ZipKnown == ~safmr_group.none
NoUnitResolved == \A i \in 1..Len(units) : "error" \in DOMAIN units[i]
DownPaymentOutOfRange ==
  input_params.down_payment_percent < 0 \/ input_params.down_payment_percent > 100

\* the bundle is within the ranges the interface documents: a price >= 0, a
\* down-payment percent in 0..100 and a loan term of at least one year
InputsInRange ==
  /\ input_params.property_price >= 0
  /\ ~DownPaymentOutOfRange
  /\ input_params.loan_term_years >= 1

----------------------------------------------------------------------------
(* The properties.                                                         *)

\* C1: a returned summary that carries 'error' has no financial field, and
\* one that has a financial field carries no 'error'.
C1_ErrorExcludesFinancials ==
  Returned =>
    /\ HasError(property_summary) => NoFinancialField(property_summary)
    /\ ~NoFinancialField(property_summary) => ~HasError(property_summary)

\* C1 witness: the call returned the postal-code error.
C1_Witness ==
  /\ Returned
  /\ HasError(property_summary)
  /\ Len(parsed_units) > 0

\* C2: for a bundle within the documented ranges, when no unit resolved
\* (every unit failed, or the groups expand to no unit at all), the result carries an aggregate error and no financial field.
C2_NoValidUnitsIsFatal ==
  (Returned /\ InputsInRange /\ NoUnitResolved) =>
    (HasError(property_summary) /\ NoFinancialField(property_summary))

\* C3: a down-payment percent below 0 or above 100 is a fatal input error,
\* and the result carries no financial field.
C3_DownPaymentRangeIsFatal ==
  (Returned /\ DownPaymentOutOfRange) =>
    (HasError(property_summary) /\ NoFinancialField(property_summary))

\* C4: for a bundle within the documented ranges and a known postal code, a
\* mix of which some token parsed and some token did not returns no fatal error, and the parse warning naming the
\* malformed token is still in the returned summary.
C4_ParseWarningKept ==
  (Returned /\ InputsInRange /\ ZipKnown /\ Len(parsed_units) > 0
     /\ Truthy(parse_error)) =>
    /\ ~HasError(property_summary)
    /\ "unit_errors" \in DOMAIN property_summary
    /\ property_summary["unit_errors"] = parse_error.text

\* C5: a unit with no ceiling for its bedroom class does not abort the run:
\* every unit of the parsed groups is in the list at its position, a failed
\* one tagged with a reason naming its class, and when some unit resolved
\* the financial summary is there, computed from the resolved units.
C5_FailedUnitKeptRunContinues ==
  (Returned /\ ZipKnown) =>
    LET expanded == ExpandedBedrooms(parsed_units)
    IN  /\ Len(units) = Len(expanded)
        /\ \A i \in 1..Len(units) :
             /\ units[i].unit_number = i
             /\ units[i].bedrooms = expanded[i]
             /\ ~HasCeiling(expanded[i]) =>
                  /\ "error" \in DOMAIN units[i]
                  /\ Contains(units[i]["error"], BedroomsStr(expanded[i]))
        /\ (\E i \in 1..Len(expanded) : HasCeiling(expanded[i])) =>
             /\ ~HasError(property_summary)
             /\ AllFinancialFields(property_summary)
             /\ property_summary.total_potential_pha_rent_monthly = SumResolved(units)
             /\ Gt0(property_summary.total_potential_pha_rent_monthly)

\* C5 witness: a returned list with a failed unit and a resolved unit.
C5_Witness ==
  /\ Returned
  /\ \E i, j \in 1..Len(units) :
       "error" \in DOMAIN units[i] /\ "error" \notin DOMAIN units[j]
  /\ AllFinancialFields(property_summary)

\* C6: for a bundle within the documented ranges whose postal code is not in
\* the edition's map, the failure is at property level and the list still has one failed record per parsed unit.
C6_UnknownZipKeepsUnits ==
  (Returned /\ InputsInRange /\ Len(parsed_units) > 0 /\ ~ZipKnown) =>
    /\ HasError(property_summary)
    /\ Len(units) = Len(ExpandedBedrooms(parsed_units))
    /\ \A i \in 1..Len(units) : "error" \in DOMAIN units[i]

\* C7 as stated: no unit record has both an 'error' and a 'pha_rent' entry.
C7_NeverBothKeys ==
  \A i \in 1..Len(units) :
    ~("error" \in DOMAIN units[i] /\ "pha_rent" \in DOMAIN units[i])

\* C7 as amended: every unit record has 'pha_rent', group and label; a
\* record with a failure reason has pha_rent 0.0, a placeholder and no
\* ceiling; a record without one has the positive ceiling of its edition,
\* group and bedroom class.
C7_CeilingOrReason ==
  \A i \in 1..Len(units) :
    LET u == units[i]
        row == get_payment_standards_for_year(PaymentYearOf(input_params))[u.safmr_group]
    IN  /\ {"pha_rent", "safmr_group", "rent_type"} \subseteq DOMAIN u
        /\ "error" \in DOMAIN u =>
             (u.pha_rent = Zero /\ u.bedrooms_str \notin DOMAIN row)
        /\ "error" \notin DOMAIN u =>
             /\ u.bedrooms_str \in DOMAIN row
             /\ u.pha_rent = R(row[u.bedrooms_str])
             /\ Gt0(u.pha_rent)

\* C7 witness: a returned list holding a failed and a resolved record.
C7_Witness ==
  /\ Returned
  /\ \E i \in 1..Len(units) : "error" \in DOMAIN units[i]
  /\ \E j \in 1..Len(units) : "error" \notin DOMAIN units[j]
  /\ Len(units) >= 2

\* C8: for a bundle within the documented ranges, cash-on-cash is
\* (annual cash flow / down payment) x 100 for a down payment > 0; for a down payment of exactly 0 it is +infinity, 0 or
\* -infinity as the annual cash flow is > 0, = 0 or < 0.
C8_CashOnCashSentinels ==
  (Returned /\ InputsInRange /\ ~HasError(property_summary)) =>
    LET down == property_summary.down_payment_amount
        cf == property_summary.cash_flow_before_tax_annual
        coc == property_summary.cash_on_cash_return_percent
    IN  /\ Gt0(down) => coc = Mul(Div(cf, down), R(100))
        /\ Eq0(down) =>
             coc = IF Gt0(cf) THEN Inf ELSE IF Eq0(cf) THEN Zero ELSE NegInf

\* C9: for a bundle within the documented ranges, the cap rate is
\* (NOI / price) x 100 for a price > 0; for a price of 0 it is +infinity, 0 or -infinity as NOI is > 0, = 0 or < 0.
C9_CapRateSentinels ==
  (Returned /\ InputsInRange /\ ~HasError(property_summary)) =>
    LET price == R(input_params.property_price)
        noi == property_summary.noi_annual
        cap == property_summary.cap_rate_percent
    IN  /\ Gt0(price) => cap = Mul(Div(noi, price), R(100))
        /\ Eq0(price) =>
             cap = IF Gt0(noi) THEN Inf ELSE IF Eq0(noi) THEN Zero ELSE NegInf

\* C10: for a bundle within the documented ranges, the gross rent multiplier
\* is price / annual gross rent for a gross rent > 0; for a gross rent of 0 it is +infinity if price > 0, else 0.
C10_GrmSentinels ==
  (Returned /\ InputsInRange /\ ~HasError(property_summary)) =>
    LET price == R(input_params.property_price)
        gross == property_summary.gross_potential_rent_annual
        grm == property_summary.grm
    IN  /\ Gt0(gross) => grm = Div(price, gross)
        /\ Eq0(gross) => grm = IF Gt0(price) THEN Inf ELSE Zero

\* the analysis has made its call of calculate_loan_payment: the call raised,
\* or its value is in the returned summary
LoanCallMade ==
  pc = "raised" \/ (Returned /\ AllFinancialFields(property_summary))

\* C11: calculate_loan_payment returns 0 for a principal <= 0 or a term <= 0,
\* principal / (term * 12) for a rate of 0, and otherwise
\* principal * r * (1+r)^n / ((1+r)^n - 1) with r = rate/100/12 and
\* n = term * 12; for non-negative arguments it returns a value, it does not
\* fail with a division by zero.
C11_LoanPaymentContract ==
  LoanCallMade =>
    LET principal == LoanAmount(input_params)
        annual_rate == input_params.interest_rate
        term_years == input_params.loan_term_years
        n == term_years * 12
        nonneg == ~(principal.n < 0) /\ ~(annual_rate.q.n < 0) /\ term_years >= 0
        returned(v) ==
          pc # "raised" /\ property_summary.monthly_principal_interest = v
    IN  /\ nonneg => pc # "raised"
        /\ (Le0(principal) \/ term_years <= 0) => returned(Zero)
        /\ (Gt0(principal) /\ term_years > 0 /\ Eq0(annual_rate.q)) =>
             returned(Div(principal, R(n)))
        /\ (Gt0(principal) /\ term_years > 0 /\ ~Eq0(annual_rate.q)) =>
             /\ pc # "raised"
             /\ LET r == Div(Div(Exact(annual_rate), R(100)), R(12))
                    g == Pow(Add(R(1), r), n)
                IN  returned(Div(Mul(Mul(principal, r), g), Sub(g, R(1))))

\* C11, the part the code keeps: whenever the call returns, the value is the
\* one of the three cases
C11_ReturnedValue ==
  (Returned /\ AllFinancialFields(property_summary)) =>
    LET principal == LoanAmount(input_params)
        annual_rate == input_params.interest_rate
        n == input_params.loan_term_years * 12
        value == property_summary.monthly_principal_interest
    IN  IF Le0(principal) \/ n <= 0 THEN value = Zero
        ELSE IF Eq0(annual_rate.q) THEN value = Div(principal, R(n))
        ELSE LET r == Div(Div(Exact(annual_rate), R(100)), R(12))
                 g == Pow(Add(R(1), r), n)
             IN  value = Div(Mul(Mul(principal, r), g), Sub(g, R(1)))

\* a summary with the financial section and no 'error': a non-error result
NonErrorResult ==
  Returned /\ ~HasError(property_summary) /\ AllFinancialFields(property_summary)

\* the cell of the selected edition's table for a group and a bedroom number,
\* read from the table itself; 0 where the table has no such cell
TableCell(params, group, bedrooms) ==
  LET table == IF PaymentYearOf(params) = Year2025
               THEN PAYMENT_STANDARDS_2025 ELSE PAYMENT_STANDARDS
      key == IntToStr(bedrooms) \o <<" ", "B", "R">>
  IN  IF group \in DOMAIN table /\ key \in DOMAIN table[group]
      THEN table[group][key] ELSE 0

\* the sum of the table cells of a sequence of bedroom numbers
RECURSIVE CellSum(_, _, _)
CellSum(params, group, bedrooms_seq) ==
  IF Len(bedrooms_seq) = 0 THEN 0
  ELSE TableCell(params, group, Head(bedrooms_seq))
       + CellSum(params, group, Tail(bedrooms_seq))

\* C12: in a non-error result the monthly total is the sum of the ceilings of
\* the units that resolved, a failed unit adding nothing; each ceiling is the
\* cell of the selected edition for the property's group and the unit's
\* bedroom class; the annual gross rent is 12 times the total.
C12_RentTotals ==
  NonErrorResult =>
    /\ property_summary.total_potential_pha_rent_monthly = SumResolved(units)
    /\ property_summary.total_potential_pha_rent_monthly =
         R(CellSum(input_params, safmr_group.val, ExpandedBedrooms(parsed_units)))
    /\ \A i \in 1..Len(units) :
         "error" \notin DOMAIN units[i] =>
           units[i].pha_rent =
             R(TableCell(input_params, units[i].safmr_group, units[i].bedrooms))
    /\ property_summary.gross_potential_rent_annual =
         Mul(R(12), property_summary.total_potential_pha_rent_monthly)

\* C12's case: a non-error result over a resolved and a failed unit
C12_Witness ==
  /\ NonErrorResult
  /\ \E i, j \in 1..Len(units) :
       "error" \in DOMAIN units[i] /\ "error" \notin DOMAIN units[j]
  /\ Gt0(property_summary.total_potential_pha_rent_monthly)

\* amount x percent / 100
PercentOf(amount, percent) == Div(Mul(amount, R(percent)), R(100))

\* C13: in a non-error result, the vacancy allowance is the annual gross rent
\* x vacancy% / 100, the effective gross income is the gross rent less that
\* allowance, repairs and management are each the gross rent (not the
\* effective income) x their percent / 100, the total operating expense is
\* tax + insurance + repairs + management + other, and NOI is the effective
\* gross income less the total operating expense.
C13_IncomeIdentities ==
  NonErrorResult =>
    LET ps == property_summary
        gross == ps.gross_potential_rent_annual
    IN  /\ ps.vacancy_allowance_annual =
             PercentOf(gross, input_params.vacancy_rate_percent)
        /\ ps.effective_gross_income_annual =
             Sub(gross, ps.vacancy_allowance_annual)
        /\ ps.repairs_allowance_annual =
             PercentOf(gross, input_params.repairs_maintenance_percent)
        /\ ps.management_fee_annual =
             PercentOf(gross, input_params.property_management_percent)
        /\ ps.total_operating_expenses_annual =
             Add(R(input_params.annual_property_taxes
                   + input_params.annual_home_insurance
                   + input_params.other_opex_annual),
                 Add(ps.repairs_allowance_annual, ps.management_fee_annual))
        /\ ps.noi_annual =
             Sub(ps.effective_gross_income_annual,
                 ps.total_operating_expenses_annual)

\* C13's case: a non-error result with rent, a vacancy, both percent expenses
\* and all three fixed expenses, so that a percent taken on the effective
\* income would differ from one taken on the gross rent
C13_Witness ==
  /\ NonErrorResult
  /\ Gt0(property_summary.gross_potential_rent_annual)
  /\ input_params.vacancy_rate_percent \in 1..99
  /\ input_params.repairs_maintenance_percent > 0
  /\ input_params.property_management_percent > 0
  /\ input_params.annual_property_taxes > 0
  /\ input_params.annual_home_insurance > 0
  /\ input_params.other_opex_annual > 0
  /\ property_summary.repairs_allowance_annual #
       PercentOf(property_summary.effective_gross_income_annual,
                 input_params.repairs_maintenance_percent)

\* C14: in a non-error result, the annual debt service is 12 x the monthly
\* principal-and-interest payment (taxes and insurance are not in it), the
\* annual cash flow before tax is NOI less the annual debt service, and the
\* monthly cash flow is the annual one / 12.
C14_DebtServiceAndCashFlow ==
  NonErrorResult =>
    LET ps == property_summary
    IN  /\ ps.monthly_principal_interest = MonthlyPI(input_params).value
        /\ ps.annual_debt_service = Mul(R(12), ps.monthly_principal_interest)
        /\ ps.cash_flow_before_tax_annual =
             Sub(ps.noi_annual, ps.annual_debt_service)
        /\ ps.cash_flow_before_tax_monthly =
             Div(ps.cash_flow_before_tax_annual, R(12))

\* C14's case: a non-error result with a payment on a loan at interest and
\* with taxes and insurance, which the debt service leaves out
C14_Witness ==
  /\ NonErrorResult
  /\ Gt0(property_summary.monthly_principal_interest)
  /\ ~Eq0(input_params.interest_rate.q)
  /\ input_params.annual_property_taxes > 0
  /\ input_params.annual_home_insurance > 0
  /\ property_summary.annual_debt_service #
       Mul(R(12), property_summary.monthly_piti)
  /\ ~Eq0(property_summary.cash_flow_before_tax_annual)

\* C15: in a non-error result, the down payment is price x down% / 100, the
\* loan amount is the price less the down payment (the two add up to the
\* price), and the monthly PITI is the principal-and-interest payment plus a
\* twelfth of the annual tax plus a twelfth of the annual insurance.
C15_FinancingIdentities ==
  NonErrorResult =>
    LET ps == property_summary
        price == R(input_params.property_price)
    IN  /\ ps.down_payment_amount =
             PercentOf(price, input_params.down_payment_percent)
        /\ ps.loan_amount = Sub(price, ps.down_payment_amount)
        /\ Add(ps.down_payment_amount, ps.loan_amount) = price
        /\ ps.monthly_piti =
             Add(ps.monthly_principal_interest,
                 Add(Div(R(input_params.annual_property_taxes), R(12)),
                     Div(R(input_params.annual_home_insurance), R(12))))

\* C15's case: a non-error result on a price split into a down payment and a
\* loan, with a payment, a tax and an insurance in the PITI
C15_Witness ==
  /\ NonErrorResult
  /\ Gt0(property_summary.down_payment_amount)
  /\ Gt0(property_summary.loan_amount)
  /\ Gt0(property_summary.monthly_principal_interest)
  /\ input_params.annual_property_taxes > 0
  /\ input_params.annual_home_insurance > 0

\* the bundle of the worked example: a postal code of group 1 in the 2024
\* edition (1 BR ceiling 1240), one 1 BR unit, a price of 100000 paid in
\* full, no tax, insurance, vacancy, maintenance, management or other expense
ExampleBundle ==
  /\ input_params.property_zip_code = <<"1","9","1","2","0">>
  /\ PaymentYearOf(input_params) = Year2024
  /\ input_params.unit_bedroom_counts_str = <<"1","x","1","B","R">>
  /\ input_params.property_price = 100000
  /\ input_params.down_payment_percent = 100
  /\ input_params.annual_property_taxes = 0
  /\ input_params.annual_home_insurance = 0
  /\ input_params.other_opex_annual = 0
  /\ input_params.vacancy_rate_percent = 0
  /\ input_params.repairs_maintenance_percent = 0
  /\ input_params.property_management_percent = 0

\* C16: on the example bundle the analysis returns a loan of 0, a payment of
\* 0, an annual gross rent, NOI and annual cash flow of 14880, a cash-on-cash
\* return and a cap rate of 14.88 percent and a GRM of 100000/14880.
C16_WorkedExample ==
  (Returned /\ ExampleBundle) =>
    /\ NonErrorResult
    /\ ZIP_TO_GROUP_MAPPING[input_params.property_zip_code] = 1
    /\ PAYMENT_STANDARDS[1][<<"1"," ","B","R">>] = 1240
    /\ Len(units) = 1
    /\ LET ps == property_summary
       IN  /\ ps.loan_amount = Zero
           /\ ps.monthly_principal_interest = Zero
           /\ ps.gross_potential_rent_annual = R(14880)
           /\ ps.noi_annual = R(14880)
           /\ ps.cash_flow_before_tax_annual = R(14880)
           /\ ps.cash_on_cash_return_percent = Div(R(1488), R(100))
           /\ ps.cap_rate_percent = Div(R(1488), R(100))
           /\ ps.grm = Div(R(100000), R(14880))

\* C16's case: the analysis of the example bundle has returned
C16_Witness == Returned /\ ExampleBundle /\ Len(units) = 1

\* the groups a mix of well-formed tokens is made of: the bundle's mix is
\* their text under one of the separators
IsMixOf(groups) ==
  /\ \A i \in 1..Len(groups) : groups[i].count >= 1 /\ HasCeiling(groups[i].bedrooms)
  /\ \E sep \in Separators :
       input_params.unit_bedroom_counts_str = MixOf(groups, sep)

\* the mixes of well-formed tokens among the bundles
WellFormedMixes ==
  WellFormedGroups \cup {<<[count |-> c, bedrooms |-> 1]>> : c \in 1..MaxCount}

\* the unit records are those of the groups: as many as the counts add up to,
\* tagged with the bedroom classes in token order
RecordsFollow(groups) ==
  LET expected == ExpandedBedrooms(groups)
  IN  /\ Len(units) = Len(expected)
      /\ \A i \in 1..Len(units) :
           /\ units[i].unit_number = i
           /\ units[i].bedrooms = expected[i]
           /\ units[i].bedrooms_str = IntToStr(expected[i]) \o <<" ", "B", "R">>

\* C17: for a bundle within the documented ranges whose mix is made of
\* well-formed tokens N1 x T1, N2 x T2, ..., the analysis returns exactly
\* N1 + N2 + ... unit records, the first N1 tagged T1, the next N2 tagged T2,
\* and so on in token order.
C17_RecordsInTokenOrder ==
  \A groups \in WellFormedMixes :
    (Returned /\ InputsInRange /\ IsMixOf(groups)) => RecordsFollow(groups)

\* C17 where the postal code is in the edition's map: the unit loop expands
\* the tokens as stated
C17_KnownZipRecordsInTokenOrder ==
  \A groups \in WellFormedMixes :
    (Returned /\ ZipKnown /\ IsMixOf(groups)) => RecordsFollow(groups)

\* the postal code of the bundle is in the map of the selected edition
ZipInMap == ~LookupGroup(input_params).none

\* count-x-type tokens over classes of the closed enumeration, each with its
\* count and the column of the table its class stands for
ClassTokens ==
  (<<"3", "x", "S", "R", "O">> :> [count |-> 3, column |-> <<"S", "R", "O">>])
  @@ (Token(2, 1) :> [count |-> 2, column |-> <<"1", " ", "B", "R">>])

\* C18: for a bundle within the documented ranges and a postal code of the
\* edition, a count-x-type token over a class of {SRO, 0BR, ..., 8BR} is
\* accepted by the parser: "3xSRO" yields 3 units tagged SRO, each resolved
\* to the SRO column of the row of the property's group.
C18_EveryClassAccepted ==
  \A token \in DOMAIN ClassTokens :
    (Returned /\ InputsInRange /\ ZipInMap
       /\ input_params.unit_bedroom_counts_str = token) =>
      LET want == ClassTokens[token]
          row == GroupPaymentStandards(input_params, LookupGroup(input_params).val)
      IN  /\ ~Truthy(parse_error)
          /\ Len(units) = want.count
          /\ \A i \in 1..Len(units) :
               /\ "error" \notin DOMAIN units[i]
               /\ units[i].bedrooms_str = want.column
               /\ units[i].pha_rent = R(row[want.column])

\* the mix of the bundle is empty or made of whitespace only
BlankMix ==
  \A i \in 1..Len(input_params.unit_bedroom_counts_str) :
    input_params.unit_bedroom_counts_str[i] \in Whitespace

\* C19: for a bundle within the documented ranges whose mix is empty or
\* whitespace only, parse_unit_bedroom_counts returns no unit together with a
\* failure message, and the analysis returns a fatal error, no unit record
\* and no financial field.
C19_BlankMixFails ==
  (InputsInRange /\ BlankMix) =>
    /\ pc # "start" => (Len(parsed_units) = 0 /\ Truthy(parse_error))
    /\ Returned =>
         /\ HasError(property_summary)
         /\ Len(units) = 0
         /\ NoFinancialField(property_summary)

\* C19, the part the code keeps: the analysis of a blank mix ends in the
\* fatal error, with no unit record and no financial field
C19_BlankMixIsFatal ==
  (pc # "start" /\ BlankMix) =>
    /\ Len(parsed_units) = 0
    /\ Returned =>
         /\ HasError(property_summary)
         /\ Len(units) = 0
         /\ NoFinancialField(property_summary)

\* mixes with a count-x-type token whose count is zero or negative: the
\* token, and the groups of the remaining tokens
NonPositiveCountMixes ==
  (Token(0, 1) :> [token |-> Token(0, 1), rest |-> <<>>])
  @@ ((Token(0, 2) \o <<",", " ">> \o Token(1, 1)) :>
        [token |-> Token(0, 2), rest |-> <<[count |-> 1, bedrooms |-> 1]>>])
  @@ ((<<"-">> \o Token(1, 2) \o <<",", " ">> \o Token(1, 1)) :>
        [token |-> <<"-">> \o Token(1, 2),
         rest |-> <<[count |-> 1, bedrooms |-> 1]>>])

\* C20: for a bundle within the documented ranges, the parser never yields a
\* unit group of count 0; a token with a zero or negative count is skipped,
\* a warning names it, and the remaining tokens are parsed.
C20_NonPositiveCountSkipped ==
  (pc # "start" /\ InputsInRange) =>
    /\ \A i \in 1..Len(parsed_units) : parsed_units[i].count >= 1
    /\ \A mix \in DOMAIN NonPositiveCountMixes :
         input_params.unit_bedroom_counts_str = mix =>
           /\ parsed_units = NonPositiveCountMixes[mix].rest
           /\ Truthy(parse_error)
           /\ Contains(parse_error.text, UpperStr(NonPositiveCountMixes[mix].token))

\* the tables of one edition, read from the module-level tables themselves
EditionTables(params) ==
  IF "payment_year" \in DOMAIN params /\ params.payment_year = Year2025
  THEN [zip_mapping |-> ZIP_TO_GROUP_MAPPING_2025,
        payment_standards |-> PAYMENT_STANDARDS_2025,
        group_to_rent_type |-> GROUP_TO_RENT_TYPE_2025]
  ELSE [zip_mapping |-> ZIP_TO_GROUP_MAPPING,
        payment_standards |-> PAYMENT_STANDARDS,
        group_to_rent_type |-> GROUP_TO_RENT_TYPE]

\* C21: the group, the ceilings and the label used by one analysis all come
\* from the edition the selector names (2025 for "2025", 2024 when absent or
\* "2024"): the group is the one that edition's postal-code map assigns, and
\* each unit's label and ceiling, and the summary's group and label, are
\* that edition's entries for that group.
C21_OneEditionPerAnalysis ==
  LET t == EditionTables(input_params)
      zip == input_params.property_zip_code
  IN  /\ ~safmr_group.none =>
           zip \in DOMAIN t.zip_mapping /\ safmr_group.val = t.zip_mapping[zip]
      /\ \A i \in 1..Len(units) :
           LET u == units[i]
           IN  /\ u.safmr_group = t.zip_mapping[zip]
               /\ u.rent_type = t.group_to_rent_type[u.safmr_group]
               /\ "error" \notin DOMAIN u =>
                    u.pha_rent = R(t.payment_standards[u.safmr_group][u.bedrooms_str])
               /\ "error" \in DOMAIN u =>
                    u.bedrooms_str \notin DOMAIN t.payment_standards[u.safmr_group]
      /\ NonErrorResult =>
           /\ property_summary.safmr_group = t.zip_mapping[zip]
           /\ property_summary.rent_type = t.group_to_rent_type[t.zip_mapping[zip]]

\* C21's case: an analysis of the 2025 edition for 19120, whose group is 1 in
\* 2024 and 2 in 2025, has returned with a resolved unit
C21_Witness ==
  /\ NonErrorResult
  /\ input_params.property_zip_code = <<"1","9","1","2","0">>
  /\ PaymentYearOf(input_params) = Year2025
  /\ ZIP_TO_GROUP_MAPPING[<<"1","9","1","2","0">>] = 1
  /\ safmr_group.val = 2
  /\ \E i \in 1..Len(units) : "error" \notin DOMAIN units[i]

\* the ten bedroom classes of a rent-ceiling row
BedroomClasses ==
  {<<"S","R","O">>} \cup {IntToStr(b) \o <<" ", "B", "R">> : b \in 0..8}

\* every postal code of an edition's map has a group with a label and a row
\* of exactly the ten classes, each ceiling a non-negative integer
EditionComplete(t) ==
  \A zip \in DOMAIN t.zip_mapping :
    LET group == t.zip_mapping[zip]
    IN  /\ group \in DOMAIN t.group_to_rent_type
        /\ Len(t.group_to_rent_type[group]) > 0
        /\ group \in DOMAIN t.payment_standards
        /\ DOMAIN t.payment_standards[group] = BedroomClasses
        /\ \A class \in BedroomClasses : t.payment_standards[group][class] \in Nat

Tables2024Complete == EditionComplete(EditionTables([payment_year |-> Year2024]))
Tables2025Complete == EditionComplete(EditionTables([payment_year |-> Year2025]))

\* C22: the tables of the analysis's edition are complete (each postal code
\* of the map has one group with a label and a row of the ten classes SRO,
\* 0 BR .. 8 BR of non-negative integers), so a postal code of the map
\* resolves to the group the map assigns and every unit of a class 0..8
\* resolves to that row's non-negative ceiling.
C22_TablesCompleteResolutionSucceeds ==
  LET t == EditionTables(input_params)
      zip == input_params.property_zip_code
  IN  /\ IF PaymentYearOf(input_params) = Year2025
         THEN Tables2025Complete ELSE Tables2024Complete
      /\ zip \in DOMAIN t.zip_mapping =>
           LookupGroup(input_params) = SomeInt(t.zip_mapping[zip])
      /\ \A i \in 1..Len(units) :
           units[i].bedrooms \in 0..8 =>
             /\ "error" \notin DOMAIN units[i]
             /\ units[i].safmr_group = t.zip_mapping[zip]
             /\ ~Gt0(Neg(units[i].pha_rent))
             /\ units[i].pha_rent =
                  R(t.payment_standards[t.zip_mapping[zip]][units[i].bedrooms_str])

\* C22's case: a unit of postal code 19102 resolved in the 2025 edition's
\* fifth group
C22_Witness ==
  /\ Returned
  /\ input_params.property_zip_code = <<"1","9","1","0","2">>
  /\ PaymentYearOf(input_params) = Year2025
  /\ \E i \in 1..Len(units) :
       /\ units[i].safmr_group = 5
       /\ "error" \notin DOMAIN units[i]
       /\ Gt0(units[i].pha_rent)

\* a mix of one token whose count is followed by a descriptor that is no
\* bedroom class
UnrecognizedDescriptorMix == <<"2", "x", "S", "T", "U", "D", "I", "O">>

\* C23: an unrecognized bedroom descriptor, a postal code absent from the
\* edition's map and a missing ceiling cell are three distinct failure
\* categories of the result; for a bundle within the documented ranges the
\* mix "2xSTUDIO" is reported as a failure of its own category on the unit,
\* not as the parser's generic could-not-parse message.
C23_ThreeFailureCategories ==
  (Returned /\ InputsInRange
     /\ input_params.unit_bedroom_counts_str = UnrecognizedDescriptorMix) =>
    /\ "unit_errors" \in DOMAIN property_summary =>
         ~Contains(property_summary.unit_errors, MsgCouldNotParse)
    /\ \/ \E i \in 1..Len(units) : "error" \in DOMAIN units[i]
       \/ HasError(property_summary)

\* the label the report's header gives as the client-friendly area
ReportedNeighborhood == report[5].args[1]

\* the entries of the table as written that list a postal code
EntriesListing(zip) ==
  {i \in 1..Len(NeighborhoodItems) : InList(zip, NeighborhoodItems[i].zips)}

LabelWestPhillyNorth ==
  <<"W","e","s","t"," ","P","h","i","l","l","y"," ","-"," ","N","o","r","t","h"," ","(","M","a","n","t","u","a",","," ","P","o","w","e","l","t","o","n">> \o
  <<" ","V","i","l","l","a","g","e",","," ","W","e","s","t"," ","P","o","w","e","l","t","o","n",")">>
LabelPennypack == <<"P","e","n","n","y","p","a","c","k"," ","/"," ","H","o","l","m","e","s","b","u","r","g">>

FinancialSectionTitles ==
  {"Property Financial Summary:",
   "Monthly Debt Service (PITI) & Basic Cash Flow:",
   "Annual Operating Income & Expenses:",
   "Cash Flow & Returns (Comprehensive):",
   "Longer-Term Projections (Simplified):"}

\* the lines of the error block
ErrorLineTexts == {"Error during calculation: {}", "Error: {}"}

\* C25: the report of a result whose summary carries a fatal error gives that
\* error message in an error line after the five header lines and has none
\* of the financial sections, also when the summary carries a parse warning
\* besides a postal-code-not-found error.
C25_ErrorReportHasNoFinancials ==
  (report # <<>> /\ InputsInRange /\ HasError(property_summary)) =>
    /\ \E i \in 6..Len(report) :
         /\ report[i].text \in ErrorLineTexts
         /\ report[i].args[1] = property_summary.error
    /\ \A i \in 1..Len(report) : report[i].text \notin FinancialSectionTitles

\* C26: the fatal conditions are checked in a fixed order and the first that
\* holds ends the call: an empty parse result gives the no-units error
\* whether or not the postal code is known, the postal-code-not-found error
\* is given only when a unit group was parsed, and a unit record or a
\* financial field exists only after both checks have passed.
C26_FatalChecksInOrder ==
  /\ (Returned /\ Len(parsed_units) = 0) =>
       /\ HasError(property_summary)
       /\ property_summary.error = MsgNoValidUnits
  /\ (Returned /\ HasError(property_summary)
        /\ Contains(property_summary.error, MsgNotFoundIn)) =>
       /\ Len(parsed_units) > 0
       /\ LookupGroup(input_params).none
  /\ pc \in {"start", "parsed"} =>
       /\ Len(units) = 0
       /\ NoFinancialField(property_summary)
  /\ (Len(units) > 0 \/ ~NoFinancialField(property_summary)) =>
       /\ Len(parsed_units) > 0
       /\ ~LookupGroup(input_params).none

\* C26's case: a call whose mix parses to nothing and whose postal code is in
\* no map has returned the no-units error
C26_Witness ==
  /\ Returned
  /\ Len(parsed_units) = 0
  /\ LookupGroup(input_params).none
  /\ HasError(property_summary)
  /\ property_summary.error = MsgNoValidUnits

\* the sum of the counts of a list of unit groups
RECURSIVE SumCounts(_)
SumCounts(groups) ==
  IF Len(groups) = 0 THEN 0 ELSE Head(groups).count + SumCounts(Tail(groups))

\* C27: the unit records are numbered 1, 2, ... in insertion order, without
\* gap or repeat, and in a non-error result total_units is the length of
\* the list, which is the sum of the counts of the parsed groups.
C27_UnitsNumberedAndCounted ==
  /\ \A i \in 1..Len(units) : units[i].unit_number = i
  /\ NonErrorResult =>
       /\ property_summary.total_units = Len(units)
       /\ Len(units) = SumCounts(parsed_units)

\* C27's case: a non-error result over two groups, the second of more than
\* one unit
C27_Witness ==
  /\ NonErrorResult
  /\ Len(parsed_units) = 2
  /\ parsed_units[2].count >= 2
  /\ Len(units) = parsed_units[1].count + parsed_units[2].count
  /\ units[Len(units)].unit_number = Len(units)

\* the ways a token begins with <digits> x <digits> BR, whitespace allowed
\* around the x and before BR: for each way of cutting a prefix of the token
\* into a digits, b blanks, an x, c blanks, d digits, e blanks and BR, the
\* group it denotes
GroupPrefixes(tok) ==
  LET L == Len(tok)
      run(S, i, n) == i + n - 1 <= L /\ \A k \in i..(i + n - 1) : tok[k] \in S
  IN  UNION {
        UNION {
          UNION {
            UNION {
              {[count |-> ToInt(SubSeq(tok, 1, a)),
                bedrooms |-> ToInt(SubSeq(tok, a + b + c + 2, a + b + c + d + 1))] :
                 e \in {e \in 0..L : /\ run(Whitespace, a + b + c + d + 2, e)
                                     /\ a + b + c + d + e + 3 <= L
                                     /\ tok[a + b + c + d + e + 2] = "B"
                                     /\ tok[a + b + c + d + e + 3] = "R"}} :
              d \in {d \in 1..L : run(Digits, a + b + c + 2, d)}} :
            c \in {c \in 0..L : run(Whitespace, a + b + 2, c)}} :
          b \in {b \in 0..L : /\ run(Whitespace, a + 1, b)
                              /\ a + b + 1 <= L
                              /\ tok[a + b + 1] \in XChars}} :
        a \in {a \in 1..L : run(Digits, 1, a)}}

\* the tokens the parser looks at: the pieces of the stripped, upper-cased
\* mix, each stripped, the empty ones left out
TokensOf(mix) ==
  LET pieces == ReSplit(UpperStr(Strip(mix)))
  IN  SelectSeq([i \in 1..Len(pieces) |-> Strip(pieces[i])], LAMBDA t : Len(t) > 0)

MixWithoutSeparator == Token(2, 1) \o <<" ">> \o Token(3, 2)

\* C28: the parser accepts a token exactly when the token begins with
\* <digits> x <digits> BR (blanks allowed around x and before BR, letters
\* in either case) and yields the group of that prefix; a warning names the
\* rejected tokens and nothing else, so what follows the prefix is ignored
\* without a warning: "2x1BR 3x2BR" yields the single group 2 x 1 BR and no
\* warning.
C28_PrefixMatchOnly ==
  (pc = "parsed" /\ Len(input_params.unit_bedroom_counts_str) > 0) =>
    LET tokens == TokensOf(input_params.unit_bedroom_counts_str)
        accepted == SelectSeq(tokens, LAMBDA t : GroupPrefixes(t) # {})
        rejected == SelectSeq(tokens, LAMBDA t : GroupPrefixes(t) = {})
    IN  /\ Len(parsed_units) = Len(accepted)
        /\ \A k \in 1..Len(accepted) : GroupPrefixes(accepted[k]) = {parsed_units[k]}
        /\ Truthy(parse_error) <=> Len(rejected) > 0
        /\ Truthy(parse_error) =>
             parse_error.text =
               Join([k \in 1..Len(rejected) |->
                       MsgCouldNotParse \o rejected[k] \o MsgQuote])
        /\ input_params.unit_bedroom_counts_str = MixWithoutSeparator =>
             /\ parsed_units = <<[count |-> 2, bedrooms |-> 1]>>
             /\ ~Truthy(parse_error)

\* C28's case: the mix "2x1BR 3x2BR" has been parsed to one group of two
\* units, without a warning
C28_Witness ==
  /\ pc = "parsed"
  /\ input_params.unit_bedroom_counts_str = MixWithoutSeparator
  /\ Len(parsed_units) = 1
  /\ parse_error = None

\* the bundle of the call is one the application built
AppBuilt == input_params \in AppBundles

\* C29: the bundle the application builds has every key that
\* analyze_multifamily_property and format_results_as_string read by
\* subscript, so the application's call returns a result and does not fail on
\* a missing key.
C29_AppBundleHasEveryKey ==
  (AppBuilt /\ pc # "start") =>
    /\ RequiredKeys \subseteq DOMAIN input_params
    /\ pc # "KeyError"

\* the calls that have ended: those of the history and, once it has ended,
\* the present one
EndedCalls ==
  IF pc \in {"done", "raised", "KeyError"}
  THEN Append(calls, [params |-> input_params, outcome |-> Outcome])
  ELSE calls

============================================================================
